---- MODULE Spec2Model ----
(***************************************************************************)
(* A model of the e-commerce dashboard pipeline: the dataset loader        *)
(* (data_loader.py), the fact builder, window resolver and KPI code of     *)
(* the dashboard (app.py) and the library metrics (business_metrics.py).   *)
(*                                                                         *)
(* Conventions                                                             *)
(*   - an optional value (NaN, NaT, None) is the empty set, a present      *)
(*     value v is {v};                                                     *)
(*   - an instant is an integer number of ticks, TicksPerDay ticks to a    *)
(*     calendar day, day 0 being 1970-01-01; tick 0 of a day is midnight;  *)
(*   - a float is an exact rational [kind |-> "num", n, d] in lowest terms *)
(*     or one of the IEEE specials "nan", "inf" (n is the sign);           *)
(*   - a DataFrame is [columns |-> set of names, rows |-> sequence of      *)
(*     records]; the frame with no columns stands for None.                *)
(***************************************************************************)
EXTENDS Integers, Sequences, FiniteSets, TLC

(***************************************************************************)
(* Bounds of the model.                                                    *)
(***************************************************************************)
MaxItems    == 2    \* order items per order
MaxReviews  == 2    \* reviews per order
MaxSpan     == 3    \* selectable days after the first selectable day
TicksPerDay == 2    \* instants distinguished within one calendar day
MaxRows     == 2    \* rows of a fact frame handed to a metrics function

(***************************************************************************)
(* Optional values.                                                        *)
(***************************************************************************)
NaN == {}

Some(v) == {v}

notna(x) == x # {}

Val(x) == CHOOSE v \in x : TRUE

(***************************************************************************)
(* Sequences.                                                              *)
(***************************************************************************)
RECURSIVE Flatten(_)
Flatten(ss) ==
    IF ss = <<>> THEN <<>> ELSE Head(ss) \o Flatten(Tail(ss))

RECURSIVE SumSeq(_)
SumSeq(s) ==
    IF s = <<>> THEN 0 ELSE Head(s) + SumSeq(Tail(s))

Range(s) == {s[i] : i \in 1..Len(s)}

\* The elements of a finite set of integers in ascending order.
RECURSIVE SortedSeq(_)
SortedSeq(S) ==
    IF S = {} THEN <<>>
    ELSE LET m == CHOOSE x \in S : \A y \in S : x <= y
         IN  <<m>> \o SortedSeq(S \ {m})

\* All sequences over S of length 0..n.
SeqsUpTo(S, n) == UNION {[1..k -> S] : k \in 0..n}

(***************************************************************************)
(* Floats as exact rationals with the IEEE specials.                       *)
(***************************************************************************)
Abs(a) == IF a < 0 THEN -a ELSE a

Sign(a) == IF a < 0 THEN -1 ELSE IF a > 0 THEN 1 ELSE 0

RECURSIVE Gcd(_, _)
Gcd(a, b) == IF b = 0 THEN a ELSE Gcd(b, a % b)

Num(n, d) ==
    LET g == Gcd(Abs(n), Abs(d))
    IN  [kind |-> "num", n |-> (Sign(d) * n) \div g, d |-> Abs(d) \div g]

NaNF == [kind |-> "nan", n |-> 0, d |-> 1]

InfF(s) == [kind |-> "inf", n |-> s, d |-> 1]

IsFinite(a) == a.kind = "num"

\* a - b
FSub(a, b) ==
    IF a.kind = "nan" \/ b.kind = "nan" THEN NaNF
    ELSE IF a.kind = "inf" /\ b.kind = "inf"
         THEN (IF a.n = b.n THEN NaNF ELSE a)
    ELSE IF a.kind = "inf" THEN a
    ELSE IF b.kind = "inf" THEN InfF(-b.n)
    ELSE Num(a.n * b.d - b.n * a.d, a.d * b.d)

\* a * b
FMul(a, b) ==
    IF a.kind = "nan" \/ b.kind = "nan" THEN NaNF
    ELSE IF a.kind = "inf" \/ b.kind = "inf"
         THEN (IF Sign(a.n) * Sign(b.n) = 0 THEN NaNF
               ELSE InfF(Sign(a.n) * Sign(b.n)))
    ELSE Num(a.n * b.n, a.d * b.d)

\* a / b on numpy floats: a zero divisor gives inf or nan, never an exception.
FDiv(a, b) ==
    IF a.kind = "nan" \/ b.kind = "nan" THEN NaNF
    ELSE IF b.kind = "inf"
         THEN (IF a.kind = "inf" THEN NaNF ELSE Num(0, 1))
    ELSE IF b.n = 0
         THEN (IF Sign(a.n) = 0 THEN NaNF ELSE InfF(Sign(a.n)))
    ELSE IF a.kind = "inf" THEN InfF(a.n * Sign(b.n))
    ELSE Num(a.n * b.d, a.d * b.n)

\* a > 0; any comparison with nan is False.
FGt0(a) == a.kind # "nan" /\ a.n > 0

Zero == Num(0, 1)

Hundred == Num(100, 1)

\* (x - p) / p * 100 evaluated on floats, as the source writes it.
PctChange(x, p) == FMul(FDiv(FSub(x, p), p), Hundred)

(***************************************************************************)
(* Calendar: pd.Timestamp(date), .dt.year, .dt.month, .dt.to_period('M'),  *)
(* Timedelta.days.                                                         *)
(***************************************************************************)
DaysFromCivil(y, m, d) ==
    LET yy  == IF m <= 2 THEN y - 1 ELSE y
        era == yy \div 400
        yoe == yy - era * 400
        mp  == (m + 9) % 12
        doy == (153 * mp + 2) \div 5 + d - 1
        doe == yoe * 365 + yoe \div 4 - yoe \div 100 + doy
    IN  era * 146097 + doe - 719468

CivilFromDays(z) ==
    LET zz  == z + 719468
        era == zz \div 146097
        doe == zz - era * 146097
        yoe == (doe - doe \div 1460 + doe \div 36524 - doe \div 146096) \div 365
        doy == doe - (365 * yoe + yoe \div 4 - yoe \div 100)
        mp  == (5 * doy + 2) \div 153
        d   == doy - (153 * mp + 2) \div 5 + 1
        m   == IF mp < 10 THEN mp + 3 ELSE mp - 9
        y   == yoe + era * 400 + (IF m <= 2 THEN 1 ELSE 0)
    IN  [year |-> y, month |-> m, day |-> d]

\* pd.Timestamp(date): midnight of the calendar day.
Timestamp(day) == day * TicksPerDay

\* Timestamp.date(): the calendar day of an instant.
DateOf(ts) == ts \div TicksPerDay

\* Timedelta.days: whole days, rounded towards minus infinity.
TimedeltaDays(delta) == delta \div TicksPerDay

\* .dt.to_period('M'): months since 1970-01, which orders periods in time.
to_period_M(ts) ==
    LET c == CivilFromDays(DateOf(ts))
    IN  (c.year - 1970) * 12 + (c.month - 1)

(***************************************************************************)
(* State.                                                                  *)
(***************************************************************************)
VARIABLES
    csv,              \* the five files under data_path, as parsed by read_csv
    orders,           \* EcommerceDataLoader.orders
    order_items,      \* EcommerceDataLoader.order_items
    products,         \* EcommerceDataLoader.products
    customers,        \* EcommerceDataLoader.customers
    reviews,          \* EcommerceDataLoader.reviews
    sales_data,       \* the frame the last prepare_sales_data call returned
    raised,           \* the exception the last library call raised ("" if none)
    revenue_metrics,  \* the dict the last calculate_revenue_metrics call returned
    start_date,       \* main: the Start Date widget's value (a calendar day)
    end_date,         \* main: the End Date widget's value
    outcome,          \* main: "idle", "error" (st.error shown) or "rendered"
    previous_start,   \* main: previous_start
    previous_end,     \* main: previous_end
    current_data,     \* main: current_data
    previous_data,    \* main: previous_data
    current_orders,   \* main: current_orders
    previous_orders,  \* main: previous_orders
    kpis,             \* main: kpis
    cards,            \* main: what create_bottom_cards put on its two cards
    returned,         \* what the last direct call of a chart or analysis
                      \* function returned (a tagged record; {} before any)
    fs,               \* the file system: whether data_path exists, and the
                      \* required files found under it
    instance,         \* the EcommerceDataLoader object: "absent" before
                      \* __init__, then "constructed" or "failed"
    init_error        \* the exception __init__ raised ({} if none)

loader_vars == <<orders, order_items, products, customers, reviews>>

library_vars == <<sales_data, raised, revenue_metrics>>

main_vars == <<start_date, end_date, outcome, previous_start, previous_end,
               current_data, previous_data, current_orders, previous_orders,
               kpis, cards>>

view_vars == <<returned>>

disk_vars == <<fs, instance, init_error>>

vars == <<csv, loader_vars, library_vars, main_vars, view_vars, disk_vars>>

(***************************************************************************)
(* DataFrames.                                                             *)
(***************************************************************************)
NoTable == [columns |-> {}, rows |-> <<>>]

IsBuilt(df) == df.columns # {}

Frame(cols, rs) == [columns |-> cols, rows |-> rs]

\* df[col].sum() of an integer column held in field price.
PriceSum(df) == SumSeq([i \in 1..Len(df.rows) |-> df.rows[i].price])

\* df['order_id'].nunique()
OrderIdNunique(df) == Cardinality({df.rows[i].order_id : i \in 1..Len(df.rows)})

\* Series.mean() of a sequence of integers: NaN for the empty series.
Mean(s) == IF s = <<>> THEN NaNF ELSE Num(SumSeq(s), Len(s))

(***************************************************************************)
(* data_loader.py                                                          *)
(***************************************************************************)
\* _validate_data_path: the files the loader requires, in the order tested
required_files ==
    <<"orders_dataset.csv", "order_items_dataset.csv", "products_dataset.csv",
      "customers_dataset.csv", "order_reviews_dataset.csv">>

\* os.path.exists(data_path), os.path.exists(os.path.join(data_path, file))
PathExists(disk) == disk.exists

FileExists(disk, file) == disk.exists /\ file \in disk.files

\* A raised exception: its class, its message and the file names in it.
Exception(kind, message, files) ==
    [kind |-> kind, message |-> message, files |-> files]

\* EcommerceDataLoader._validate_data_path(): the exception it raises, if any
validate_data_path(disk) ==
    IF ~PathExists(disk)
    THEN Some(Exception("FileNotFoundError", "Data path does not exist", <<>>))
    ELSE LET missing_files ==
                 SelectSeq(required_files, LAMBDA file : ~FileExists(disk, file))
         IN  IF missing_files # <<>>
             THEN Some(Exception("FileNotFoundError", "Missing required files",
                                 missing_files))
             ELSE NaN

\* pd.to_datetime(cell, errors='coerce'): an unparseable or empty cell is NaT.
to_datetime(cell) == IF cell.text = "ok" THEN Some(cell.ts) ELSE NaN

OrdersColumns ==
    {"order_id", "customer_id", "order_status", "order_purchase_timestamp",
     "order_delivered_customer_date", "year", "month"}

ItemsColumns == {"order_id", "order_item_id", "product_id", "price"}

ProductsColumns == {"product_id", "product_category_name"}

CustomersColumns == {"customer_id", "customer_state"}

ReviewsColumns == {"order_id", "review_score"}

\* _process_orders_data on one row of orders_dataset.csv
ProcessOrderRow(o) ==
    LET purchase == to_datetime(o.order_purchase_timestamp)
        civil    == CivilFromDays(DateOf(Val(purchase)))
    IN  [order_id                      |-> o.order_id,
         customer_id                   |-> o.customer_id,
         order_status                  |-> o.order_status,
         order_purchase_timestamp      |-> purchase,
         order_delivered_customer_date |-> to_datetime(o.order_delivered_customer_date),
         year  |-> IF notna(purchase) THEN Some(civil.year) ELSE NaN,
         month |-> IF notna(purchase) THEN Some(civil.month) ELSE NaN]

ProcessOrdersData(raw) ==
    Frame(OrdersColumns, [i \in 1..Len(raw) |-> ProcessOrderRow(raw[i])])

\* (delivered - purchase).dt.days, NaN when either instant is NaT
DeliveryDays(o) ==
    IF notna(o.order_delivered_customer_date) /\ notna(o.order_purchase_timestamp)
    THEN Some(TimedeltaDays(Val(o.order_delivered_customer_date)
                            - Val(o.order_purchase_timestamp)))
    ELSE NaN

\* The loader object, as the methods see it through self.
Loader == [orders |-> orders, order_items |-> order_items, products |-> products,
           customers |-> customers, reviews |-> reviews]

\* The test of prepare_sales_data with no table ever found missing.
DatasetsLoadedUnchecked(self) == TRUE

\* not (self.orders is None or self.order_items is None)
DatasetsLoaded(self) == IsBuilt(self.orders) /\ IsBuilt(self.order_items)

\* prepare_sales_data: one item row merged with one matching order row
SalesRow(it, o) ==
    [order_id                      |-> it.order_id,
     order_item_id                 |-> it.order_item_id,
     product_id                    |-> it.product_id,
     price                         |-> it.price,
     order_status                  |-> o.order_status,
     order_purchase_timestamp      |-> o.order_purchase_timestamp,
     order_delivered_customer_date |-> o.order_delivered_customer_date,
     year                          |-> o.year,
     month                         |-> o.month,
     customer_id                   |-> o.customer_id,
     delivery_days                 |-> NaN]

SalesColumns ==
    {"order_id", "order_item_id", "product_id", "price", "order_status",
     "order_purchase_timestamp", "order_delivered_customer_date", "year",
     "month", "customer_id"}

\* The status filter of prepare_sales_data ("" is a falsy status: no filter).
StatusKeeps(r, status) == status = "" \/ r.order_status = status

\* year and month are optional arguments: NaN stands for None.
prepare_sales_data(self, year, month, status) ==
    LET merged ==
            Flatten([i \in 1..Len(self.order_items.rows) |->
                LET it == self.order_items.rows[i]
                    matches == SelectSeq(self.orders.rows,
                                         LAMBDA o : o.order_id = it.order_id)
                IN  [j \in 1..Len(matches) |-> SalesRow(it, matches[j])]])
        by_status == SelectSeq(merged, LAMBDA r : StatusKeeps(r, status))
        by_year   == IF notna(year)
                     THEN SelectSeq(by_status, LAMBDA r : r.year = year)
                     ELSE by_status
        by_month  == IF notna(month)
                     THEN SelectSeq(by_year, LAMBDA r : r.month = month)
                     ELSE by_year
    IN  IF status = "delivered"
        THEN Frame(SalesColumns \cup {"delivery_days"},
                   [i \in 1..Len(by_month) |->
                       [by_month[i] EXCEPT !.delivery_days = DeliveryDays(by_month[i])]])
        ELSE Frame(SalesColumns, by_month)

\* load_all_datasets: read_csv of the five files, then the two _process steps.
load_all_datasets(files) ==
    [orders      |-> ProcessOrdersData(files.orders),
     order_items |-> Frame(ItemsColumns, files.order_items),
     products    |-> Frame(ProductsColumns, files.products),
     customers   |-> Frame(CustomersColumns, files.customers),
     reviews     |-> Frame(ReviewsColumns, files.reviews)]

\* One row of a left merge: the row with the column taken from the match, or
\* absent when there is none.
WithColumn(r, field, value) ==
    [f \in DOMAIN r \cup {field} |-> IF f = field THEN value ELSE r[f]]

\* pd.merge(left=df, right=right[[key, field]], on=key, how='left')
LeftMerge(df, right, key, field) ==
    Frame(df.columns \cup {field},
          Flatten([i \in 1..Len(df.rows) |->
              LET matches == SelectSeq(right.rows,
                                       LAMBDA m : m[key] = df.rows[i][key])
              IN  IF matches = <<>> THEN <<WithColumn(df.rows[i], field, NaN)>>
                  ELSE [j \in 1..Len(matches) |->
                          WithColumn(df.rows[i], field, matches[j][field])]]))

\* The sales data of a get_sales_with_* method: prepare_sales_data(year=year,
\* month=month), whose ValueError propagates; the method raises, or returns
\* the merge of the sales data with the table.
SalesMergedWith(self, year, month, right, key, field) ==
    IF ~DatasetsLoaded(self)
    THEN [error |-> "ValueError: Datasets must be loaded first", frame |-> NoTable]
    ELSE [error |-> "",
          frame |-> LeftMerge(prepare_sales_data(self, year, month, "delivered"),
                              right, key, field)]

\* get_sales_with_products(year, month)
get_sales_with_products(self, year, month) ==
    SalesMergedWith(self, year, month, self.products, "product_id",
                    "product_category_name")

\* get_sales_with_customers(year, month); customer_city is not modelled.
get_sales_with_customers(self, year, month) ==
    SalesMergedWith(self, year, month, self.customers, "customer_id",
                    "customer_state")

\* get_sales_with_reviews(year, month); review_creation_date is not modelled.
get_sales_with_reviews(self, year, month) ==
    SalesMergedWith(self, year, month, self.reviews, "order_id", "review_score")

(***************************************************************************)
(* app.py: filter_data_by_date                                             *)
(***************************************************************************)
\* The window test with NaT passing it.
InWindowNaTPasses(ts, start, end) ==
    ts = NaN \/ (Val(ts) >= start /\ Val(ts) <= end)

\* (ts >= start_date) & (ts <= end_date); a comparison with NaT is False.
InWindow(ts, start, end) == notna(ts) /\ Val(ts) >= start /\ Val(ts) <= end

\* (order_status == 'delivered') & order_delivered_customer_date.notna()
IsDelivered(o) ==
    o.order_status = "delivered" /\ notna(o.order_delivered_customer_date)

FactColumns ==
    ItemsColumns
      \cup {"customer_id", "order_status", "order_purchase_timestamp", "delivery_days"}
      \cup ProductsColumns \cup CustomersColumns \cup ReviewsColumns

\* One row of order_items.merge(delivered_orders[...], on='order_id'), with the
\* columns the later merges fill still absent.
FactRow(it, o) ==
    [order_id                 |-> it.order_id,
     order_item_id            |-> it.order_item_id,
     product_id               |-> it.product_id,
     price                    |-> it.price,
     customer_id              |-> o.customer_id,
     order_status             |-> o.order_status,
     order_purchase_timestamp |-> o.order_purchase_timestamp,
     delivery_days            |-> DeliveryDays(o),
     product_category_name    |-> NaN,
     customer_state           |-> NaN,
     review_score             |-> NaN,
     year_month               |-> NaN]

\* order_items.merge(delivered_orders, on='order_id'): an inner join
MergeOrders(items, delivered_orders) ==
    Flatten([i \in 1..Len(items) |->
        LET matches == SelectSeq(delivered_orders,
                                 LAMBDA o : o.order_id = items[i].order_id)
        IN  [j \in 1..Len(matches) |-> FactRow(items[i], matches[j])]])

\* The inner join on product_id: a row with no product on file is dropped.
MergeProductsInner(rows, prods) ==
    Flatten([i \in 1..Len(rows) |->
        LET matches == SelectSeq(prods,
                                 LAMBDA p : p.product_id = rows[i].product_id)
        IN  [j \in 1..Len(matches) |->
                [rows[i] EXCEPT !.product_category_name =
                                    matches[j].product_category_name]]])

\* .merge(products, on='product_id', how='left')
MergeProducts(rows, prods) ==
    Flatten([i \in 1..Len(rows) |->
        LET matches == SelectSeq(prods,
                                 LAMBDA p : p.product_id = rows[i].product_id)
        IN  IF matches = <<>> THEN <<rows[i]>>
            ELSE [j \in 1..Len(matches) |->
                    [rows[i] EXCEPT !.product_category_name =
                                        matches[j].product_category_name]]])

\* .merge(customers, on='customer_id', how='left')
MergeCustomers(rows, custs) ==
    Flatten([i \in 1..Len(rows) |->
        LET matches == SelectSeq(custs,
                                 LAMBDA c : c.customer_id = rows[i].customer_id)
        IN  IF matches = <<>> THEN <<rows[i]>>
            ELSE [j \in 1..Len(matches) |->
                    [rows[i] EXCEPT !.customer_state = matches[j].customer_state]]])

\* .merge(reviews, on='order_id', how='left')
MergeReviews(rows, revs) ==
    Flatten([i \in 1..Len(rows) |->
        LET matches == SelectSeq(revs, LAMBDA v : v.order_id = rows[i].order_id)
        IN  IF matches = <<>> THEN <<rows[i]>>
            ELSE [j \in 1..Len(matches) |->
                    [rows[i] EXCEPT !.review_score = matches[j].review_score]]])

\* Returns (sales_data, filtered_orders); start and end are instants.
filter_data_by_date(dl, start, end) ==
    LET filtered_orders ==
            SelectSeq(dl.orders.rows,
                      LAMBDA o : InWindow(o.order_purchase_timestamp, start, end))
        delivered_orders == SelectSeq(filtered_orders, IsDelivered)
    IN  [sales_data |->
            Frame(FactColumns,
                  MergeReviews(
                      MergeCustomers(
                          MergeProducts(
                              MergeOrders(dl.order_items.rows, delivered_orders),
                              dl.products.rows),
                          dl.customers.rows),
                      dl.reviews.rows)),
         filtered_orders |-> Frame(OrdersColumns, filtered_orders)]

(***************************************************************************)
(* app.py: calculate_kpis                                                  *)
(***************************************************************************)
\* df['year_month'] = df['order_purchase_timestamp'].dt.to_period('M'): the
\* column is added to the frame the caller passed.
WithYearMonth(df) ==
    Frame(df.columns \cup {"year_month"},
          [i \in 1..Len(df.rows) |->
              [df.rows[i] EXCEPT !.year_month =
                  IF notna(df.rows[i].order_purchase_timestamp)
                  THEN Some(to_period_M(Val(df.rows[i].order_purchase_timestamp)))
                  ELSE NaN]])

\* df.groupby('year_month')['price'].sum(): one entry per key, keys ascending,
\* rows with an absent key dropped.
MonthlyRevenue(df) ==
    LET keys == SortedSeq({Val(df.rows[i].year_month) :
                              i \in {j \in 1..Len(df.rows) : notna(df.rows[j].year_month)}})
    IN  [k \in 1..Len(keys) |->
            [year_month |-> keys[k],
             price |-> SumSeq([i \in 1..Len(df.rows) |->
                                  IF df.rows[i].year_month = Some(keys[k])
                                  THEN df.rows[i].price ELSE 0])]]

\* The percentage change with no guard on the sign of the baseline.
GrowthRateUnguarded(current, previous) ==
    IF previous = Zero THEN Zero ELSE PctChange(current, previous)

\* ((current - previous) / previous * 100) if previous > 0 else 0
GrowthRate(current, previous) ==
    IF FGt0(previous) THEN PctChange(current, previous) ELSE Zero

\* revenue / orders if orders > 0 else 0
AvgOrderValue(revenue, n_orders) ==
    IF n_orders > 0 THEN FDiv(revenue, Num(n_orders, 1)) ELSE Zero

\* The growth of the latest month over the first month of the series.
MonthlyGrowthFromFirst(monthly) ==
    IF Len(monthly) >= 2
    THEN GrowthRate(Num(monthly[Len(monthly)].price, 1), Num(monthly[1].price, 1))
    ELSE Zero

\* The monthly_growth branch on the current monthly series.
MonthlyGrowth(monthly) ==
    IF Len(monthly) >= 2
    THEN GrowthRate(Num(monthly[Len(monthly)].price, 1),
                    Num(monthly[Len(monthly) - 1].price, 1))
    ELSE Zero

\* Returns the dict and the two frames as the call leaves them.
calculate_kpis(current, previous) ==
    LET current_revenue  == Num(PriceSum(current), 1)
        previous_revenue == IF Len(previous.rows) > 0
                            THEN Num(PriceSum(previous), 1) ELSE Zero
        n_current_orders   == OrderIdNunique(current)
        n_previous_orders  == IF Len(previous.rows) > 0
                            THEN OrderIdNunique(previous) ELSE 0
        current_aov      == AvgOrderValue(current_revenue, n_current_orders)
        previous_aov     == AvgOrderValue(previous_revenue, n_previous_orders)
        current_after    == WithYearMonth(current)
        previous_after   == WithYearMonth(previous)
        current_monthly  == MonthlyRevenue(current_after)
    IN  [kpis |->
            [total_revenue   |-> current_revenue,
             revenue_growth  |-> GrowthRate(current_revenue, previous_revenue),
             monthly_growth  |-> MonthlyGrowth(current_monthly),
             avg_order_value |-> current_aov,
             aov_growth      |-> GrowthRate(current_aov, previous_aov),
             total_orders    |-> n_current_orders,
             orders_growth   |-> GrowthRate(Num(n_current_orders, 1),
                                            Num(n_previous_orders, 1))],
         current_data  |-> current_after,
         previous_data |-> previous_after]

(***************************************************************************)
(* app.py: create_bottom_cards                                             *)
(***************************************************************************)
\* The delivery_days of the rows of a sequence, as integers.
DeliveryDaysOf(rows) == [i \in 1..Len(rows) |-> Val(rows[i].delivery_days)]

\* ((prev_delivery - current_delivery) / prev_delivery * 100) if prev_delivery > 0 else 0
\* The trend as a plain growth rate: positive when delivery time increased.
DeliveryTrendAsGrowth(current_delivery, prev_delivery) ==
    IF FGt0(prev_delivery)
    THEN FMul(FDiv(FSub(current_delivery, prev_delivery), prev_delivery), Hundred)
    ELSE Zero

DeliveryTrend(current_delivery, prev_delivery) ==
    IF FGt0(prev_delivery)
    THEN FMul(FDiv(FSub(prev_delivery, current_delivery), prev_delivery), Hundred)
    ELSE Zero

\* int(round(x)) of a finite float: Python rounds a tie to the even integer.
IntRound(x) ==
    LET fl   == x.n \div x.d
        twor == 2 * (x.n - fl * x.d)
    IN  IF twor < x.d THEN fl
        ELSE IF twor > x.d THEN fl + 1
        ELSE IF fl % 2 = 0 THEN fl ELSE fl + 1

DeliveryCard(data) ==
    LET has_delivery ==
            /\ "delivery_days" \in data.columns
            /\ \E i \in 1..Len(data.rows) : notna(data.rows[i].delivery_days)
        data_with_delivery ==
            SelectSeq(data.rows, LAMBDA r : notna(r.delivery_days))
        avg_delivery == Mean(DeliveryDaysOf(data_with_delivery))
        Period(r) == IF notna(r.order_purchase_timestamp)
                     THEN Some(to_period_M(Val(r.order_purchase_timestamp)))
                     ELSE NaN
        periods == UNION {Period(data_with_delivery[i]) :
                             i \in 1..Len(data_with_delivery)}
        latest  == IF periods = {} THEN NaN
                   ELSE Some(CHOOSE m \in periods : \A q \in periods : q <= m)
        current_month_data ==
            SelectSeq(data_with_delivery,
                      LAMBDA r : notna(latest) /\ Period(r) = latest)
        prev_month_data ==
            SelectSeq(data_with_delivery,
                      LAMBDA r : notna(latest) /\ Period(r) = Some(Val(latest) - 1))
        current_delivery == IF Len(current_month_data) > 0
                            THEN Mean(DeliveryDaysOf(current_month_data))
                            ELSE avg_delivery
        prev_delivery    == IF Len(prev_month_data) > 0
                            THEN Mean(DeliveryDaysOf(prev_month_data))
                            ELSE avg_delivery
    IN  IF has_delivery
        THEN [available |-> TRUE, avg_delivery |-> avg_delivery,
              current_delivery |-> current_delivery,
              prev_delivery |-> prev_delivery,
              delivery_trend |->
                  IF "order_purchase_timestamp" \in data.columns
                  THEN DeliveryTrend(current_delivery, prev_delivery)
                  ELSE Zero]
        ELSE [available |-> FALSE, avg_delivery |-> NaNF,
              current_delivery |-> NaNF, prev_delivery |-> NaNF,
              delivery_trend |-> Zero]

ReviewCard(data) ==
    LET has_reviews ==
            /\ "review_score" \in data.columns
            /\ \E i \in 1..Len(data.rows) : notna(data.rows[i].review_score)
        data_with_reviews ==
            SelectSeq(data.rows, LAMBDA r : notna(r.review_score))
        avg_review == Mean([i \in 1..Len(data_with_reviews) |->
                               Val(data_with_reviews[i].review_score)])
    IN  IF has_reviews
        THEN [available |-> TRUE, avg_review |-> avg_review,
              filled |-> IntRound(avg_review),
              empty  |-> 5 - IntRound(avg_review)]
        ELSE [available |-> FALSE, avg_review |-> NaNF, filled |-> 0, empty |-> 0]

create_bottom_cards(data) ==
    [delivery |-> DeliveryCard(data), review |-> ReviewCard(data)]

(***************************************************************************)
(* business_metrics.py: calculate_revenue_metrics                          *)
(***************************************************************************)
\* df.groupby('order_id')['price'].sum(): one sum per distinct order_id
PerOrderRevenue(df) ==
    LET ids == SortedSeq({df.rows[i].order_id : i \in 1..Len(df.rows)})
    IN  [k \in 1..Len(ids) |->
            SumSeq([i \in 1..Len(df.rows) |->
                       IF df.rows[i].order_id = ids[k] THEN df.rows[i].price ELSE 0])]

\* The mean price of an item row, in place of the mean over orders.
MeanItemPrice(df) == Mean([i \in 1..Len(df.rows) |-> df.rows[i].price])

\* sales_data.groupby('order_id')['price'].sum().mean()
MeanOrderRevenue(df) == Mean(PerOrderRevenue(df))

\* ((total - prev) / prev) * 100 on two Python ints (the values nunique returns):
\* a zero divisor raises ZeroDivisionError, which the empty set stands for.
IntGrowthRate(total, prev) ==
    IF prev = 0 THEN NaN ELSE Some(Num((total - prev) * 100, prev))

\* comparison_data is optional: NoTable stands for None.  The result is the
\* exception raised ("" if none) and the dict returned (absent if it raised).
calculate_revenue_metrics(sales, comparison_data) ==
    LET total_revenue   == Num(PriceSum(sales), 1)
        total_orders    == OrderIdNunique(sales)
        avg_order_value == MeanOrderRevenue(sales)
        metrics == [total_revenue    |-> total_revenue,
                    total_orders     |-> total_orders,
                    avg_order_value  |-> avg_order_value,
                    total_items_sold |-> Len(sales.rows),
                    compared         |-> FALSE,
                    revenue_growth_rate |-> NaNF,
                    order_growth_rate   |-> NaNF,
                    aov_growth_rate     |-> NaNF,
                    previous_revenue    |-> NaNF,
                    previous_orders     |-> 0,
                    previous_aov        |-> NaNF]
        prev_revenue == Num(PriceSum(comparison_data), 1)
        prev_orders  == OrderIdNunique(comparison_data)
        prev_aov     == MeanOrderRevenue(comparison_data)
        order_growth == IntGrowthRate(total_orders, prev_orders)
    IN  IF ~IsBuilt(comparison_data)
        THEN [error |-> "", metrics |-> Some(metrics)]
        ELSE IF ~notna(order_growth)
        THEN [error |-> "ZeroDivisionError", metrics |-> NaN]
        ELSE [error |-> "",
              metrics |-> Some(
                  [metrics EXCEPT
                      !.compared = TRUE,
                      !.revenue_growth_rate = PctChange(total_revenue, prev_revenue),
                      !.order_growth_rate   = Val(order_growth),
                      !.aov_growth_rate     = PctChange(avg_order_value, prev_aov),
                      !.previous_revenue    = prev_revenue,
                      !.previous_orders     = prev_orders,
                      !.previous_aov        = prev_aov])]

\* Series.pct_change(): x / previous - 1 on floats
SeriesPctChange(x, p) == FSub(FDiv(x, p), Num(1, 1))

\* The rows of a frame whose optional field has the value key.
RowsWhere(df, field, key) == SelectSeq(df.rows, LAMBDA r : r[field] = Some(key))

\* The sorted present values of an optional field: the keys of a groupby.
GroupKeys(df, field) ==
    SortedSeq(UNION {df.rows[i][field] : i \in 1..Len(df.rows)})

\* EcommerceMetrics.calculate_monthly_trends(sales_data): the rows of the
\* trends frame, grouped by the month column.
calculate_monthly_trends(sales) ==
    LET months == GroupKeys(sales, "month")
        Of(m)  == Frame(sales.columns, RowsWhere(sales, "month", m))
        base   == [k \in 1..Len(months) |->
                      [month           |-> months[k],
                       revenue         |-> Num(PriceSum(Of(months[k])), 1),
                       orders          |-> Num(OrderIdNunique(Of(months[k])), 1),
                       avg_order_value |-> MeanOrderRevenue(Of(months[k]))]]
        Growth(field, k) ==
            IF k = 1 THEN NaNF
            ELSE FMul(SeriesPctChange(base[k][field], base[k - 1][field]), Hundred)
    IN  [k \in 1..Len(months) |->
            [month           |-> base[k].month,
             revenue         |-> base[k].revenue,
             orders          |-> base[k].orders,
             avg_order_value |-> base[k].avg_order_value,
             revenue_growth  |-> Growth("revenue", k),
             order_growth    |-> Growth("orders", k),
             aov_growth      |-> Growth("avg_order_value", k)]]

(***************************************************************************)
(* app.py: the charts.  A figure is the data of its traces.                *)
(***************************************************************************)
\* Period.to_timestamp(): midnight of the first day of the month
PeriodToTimestamp(period) ==
    Timestamp(DaysFromCivil(1970 + (period \div 12), 1 + (period % 12), 1))

\* date + pd.DateOffset(years=1) of the first day of a month
PlusOneYear(ts) ==
    LET c == CivilFromDays(DateOf(ts))
    IN  Timestamp(DaysFromCivil(c.year + 1, c.month, c.day)) + (ts % TicksPerDay)

\* create_revenue_trend_chart(current_data, previous_data): the two traces,
\* and the two frames as the call leaves them.
create_revenue_trend_chart(current, previous) ==
    LET current_ym       == WithYearMonth(current)
        current_monthly  == MonthlyRevenue(current_ym)
        previous_ym      == WithYearMonth(previous)
        previous_monthly == MonthlyRevenue(previous_ym)
        Trace(monthly, Shift(_)) ==
            [k \in 1..Len(monthly) |->
                [date  |-> Shift(PeriodToTimestamp(monthly[k].year_month)),
                 price |-> monthly[k].price]]
    IN  [figure |-> [current  |-> Trace(current_monthly, LAMBDA ts : ts),
                     previous |-> IF Len(previous.rows) > 0
                                  THEN Trace(previous_monthly, PlusOneYear)
                                  ELSE <<>>],
         current_data  |-> current_ym,
         previous_data |-> IF Len(previous.rows) > 0 THEN previous_ym ELSE previous]

\* The category and state names of the model, in the order in which pandas
\* sorts them as group keys.
CategoryNames ==
    <<"auto", "baby", "bed_bath_table", "books", "cool_stuff", "electronics",
      "furniture", "garden", "health_beauty", "housewares", "perfumery",
      "sports_leisure", "toys">>

StateNames ==
    <<"AM", "BA", "CE", "DF", "ES", "GO", "MG", "PE", "PR", "RJ", "RS", "SC", "SP">>

\* The sorted present values of an optional field holding a name: the keys
\* of a groupby, rows with an absent key dropped.
NameKeys(df, field) ==
    SelectSeq(CategoryNames \o StateNames,
              LAMBDA name : \E i \in 1..Len(df.rows) : df.rows[i][field] = Some(name))

\* The price column of a sequence of rows.
Prices(rows) == [i \in 1..Len(rows) |-> rows[i].price]

\* df.groupby(field)['price'].sum(): one entry per key, in key order
RevenueBy(df, field) ==
    LET keys == NameKeys(df, field)
    IN  [k \in 1..Len(keys) |->
            [key   |-> keys[k],
             price |-> SumSeq(Prices(RowsWhere(df, field, keys[k])))]]

\* Series.sort_values(ascending=False): the entries by descending price.  The
\* sort is not a stable one, so entries of equal price may come out in any
\* order: every descending arrangement is a possible result.
RECURSIVE DescendingOrders(_)
DescendingOrders(S) ==
    IF S = {} THEN {<<>>}
    ELSE UNION {{<<m>> \o t : t \in DescendingOrders(S \ {m})} :
                   m \in {x \in S : \A y \in S : y.price <= x.price}}

\* Series.head(n)
HeadN(series, n) == SubSeq(series, 1, IF Len(series) < n THEN Len(series) ELSE n)

\* The first ten categories in key order, whatever their revenue.
FirstTenCategories(data, sorted) ==
    HeadN(RevenueBy(data, "product_category_name"), 10)

\* The state grouping cut to ten entries.
TenStates(data) == HeadN(RevenueBy(data, "customer_state"), 10)

\* create_category_chart(data): the bars (category, revenue) of the figure,
\* sorted being the result of sort_values.
create_category_chart(data, sorted) == HeadN(sorted, 10)

\* create_state_map(data): the locations and their revenue
create_state_map(data) == RevenueBy(data, "customer_state")

\* EcommerceMetrics.analyze_product_performance(product_sales_data): the
\* revenue entries of the result, sorted being the result of sort_values;
\* the rankings by item count and by mean price are left out.
analyze_product_performance(product_sales_data, sorted) ==
    [top_categories_by_revenue |-> HeadN(sorted, 10),
     category_performance      |-> sorted]

\* EcommerceMetrics.analyze_geographic_performance(geographic_data): the
\* rows of geographic_summary, listed in key order.
analyze_geographic_performance(geographic_data, sorted) ==
    LET keys == NameKeys(geographic_data, "customer_state")
        Of(k) == RowsWhere(geographic_data, "customer_state", keys[k])
    IN  [top_states_by_revenue |-> HeadN(sorted, 10),
         geographic_summary |->
             [k \in 1..Len(keys) |->
                 [key             |-> keys[k],
                  revenue         |-> SumSeq(Prices(Of(k))),
                  customers       |-> Cardinality({Of(k)[i].customer_id :
                                                      i \in 1..Len(Of(k))}),
                  avg_order_value |-> Mean(Prices(Of(k)))]]]

\* pd.cut(days, bins=[0, 3, 7, 14, inf], labels=[...]): intervals closed on
\* the right; a value outside (0, inf] has no bucket.
BucketLabels == <<"1-3 days", "4-7 days", "8-14 days", "15+ days">>

cut(days) ==
    IF days <= 0 THEN NaN
    ELSE IF days <= 3 THEN Some(BucketLabels[1])
    ELSE IF days <= 7 THEN Some(BucketLabels[2])
    ELSE IF days <= 14 THEN Some(BucketLabels[3])
    ELSE Some(BucketLabels[4])

\* The review scores of a sequence of rows that all have one.
Scores(rows) == [i \in 1..Len(rows) |-> Val(rows[i].review_score)]

\* data.dropna(subset=['review_score', 'delivery_days'])
WithReviewAndDelivery(data) ==
    SelectSeq(data.rows, LAMBDA r : notna(r.review_score) /\ notna(r.delivery_days))

\* The figure with the message and no trace.
MessageFigure(text) == [annotation |-> Some(text), traces |-> <<>>]

\* groupby('delivery_bucket')['review_score'].mean() on the categorical
\* column: with observed=False (the default of older pandas) every label has
\* an entry, NaN where no row has it; with observed=True only the labels
\* that occur.
SatisfactionByBucket(rows, observed) ==
    LET In(label) == SelectSeq(rows, LAMBDA r : cut(Val(r.delivery_days)) = Some(label))
        labels == IF observed
                  THEN SelectSeq(BucketLabels, LAMBDA label : In(label) # <<>>)
                  ELSE BucketLabels
    IN  [k \in 1..Len(labels) |->
            [delivery_bucket |-> labels[k],
             review_score    |-> Mean(Scores(In(labels[k])))]]

\* The figure with no annotation and the bar trace.
BarFigure(bars) == [annotation |-> NaN, traces |-> <<bars>>]

\* The chart without its test for an empty selection.
SatisfactionChartUnchecked(data, observed) ==
    IF "review_score" \notin data.columns \/ "delivery_days" \notin data.columns
    THEN MessageFigure("No delivery or review data available for selected period")
    ELSE BarFigure(SatisfactionByBucket(WithReviewAndDelivery(data), observed))

\* create_satisfaction_delivery_chart(data), observed being the default of
\* groupby's parameter in the pandas at hand
create_satisfaction_delivery_chart(data, observed) ==
    IF "review_score" \notin data.columns \/ "delivery_days" \notin data.columns
    THEN MessageFigure("No delivery or review data available for selected period")
    ELSE IF Len(WithReviewAndDelivery(data)) = 0
    THEN MessageFigure("No data available with both delivery and review information")
    ELSE BarFigure(SatisfactionByBucket(WithReviewAndDelivery(data), observed))

\* EcommerceDataLoader.categorize_delivery_speed(days)
categorize_delivery_speed(days) ==
    IF days <= 3 THEN "1-3 days"
    ELSE IF days <= 7 THEN "4-7 days"
    ELSE "8+ days"

\* The lambda of analyze_customer_experience on a delivery_days cell: every
\* comparison with NaN is False, so NaN falls through to the last label.
DeliveryCategory(cell) ==
    IF notna(cell) /\ Val(cell) <= 3 THEN "1-3 days"
    ELSE IF notna(cell) /\ Val(cell) <= 7 THEN "4-7 days"
    ELSE "8+ days"

\* Series.mean() of an optional integer column: absent cells are skipped.
MeanOf(rows, field) ==
    LET present == SelectSeq(rows, LAMBDA r : notna(r[field]))
    IN  Mean([i \in 1..Len(present) |-> Val(present[i][field])])

\* EcommerceMetrics.analyze_customer_experience(review_data): a missing
\* column is a KeyError; rating_distribution and delivery_by_rating are left
\* out of the result.
analyze_customer_experience(review_data) ==
    LET categories == <<"1-3 days", "4-7 days", "8+ days">>
        In(c) == SelectSeq(review_data.rows,
                           LAMBDA r : DeliveryCategory(r.delivery_days) = c)
        seen  == SelectSeq(categories, LAMBDA c : In(c) # <<>>)
    IN  IF "review_score" \notin review_data.columns
           \/ "delivery_days" \notin review_data.columns
        THEN [error |-> "KeyError"]
        ELSE [error |-> "",
              avg_rating |-> MeanOf(review_data.rows, "review_score"),
              avg_delivery_days |-> MeanOf(review_data.rows, "delivery_days"),
              satisfaction_by_delivery_speed |->
                  [k \in 1..Len(seen) |->
                      [delivery_category |-> seen[k],
                       review_score |-> MeanOf(In(seen[k]), "review_score")]],
              delivery_speed_distribution |->
                  [k \in 1..Len(seen) |->
                      [delivery_category |-> seen[k],
                       share |-> Num(Len(In(seen[k])), Len(review_data.rows))]]]

(***************************************************************************)
(* app.py: main                                                            *)
(***************************************************************************)
\* get_date_range_data: min and max of the purchase timestamps, NaT skipped
PurchaseInstants(dl) ==
    UNION {dl.orders.rows[i].order_purchase_timestamp : i \in 1..Len(dl.orders.rows)}

min_date(dl) == CHOOSE t \in PurchaseInstants(dl) : \A u \in PurchaseInstants(dl) : t <= u

max_date(dl) == CHOOSE t \in PurchaseInstants(dl) : \A u \in PurchaseInstants(dl) : u <= t

\* What a date_input with min_value=min_date.date(), max_value=max_date.date()
\* lets the user pick.
DateInputRange(dl) ==
    IF PurchaseInstants(dl) = {} THEN {}
    ELSE DateOf(min_date(dl)) .. DateOf(max_date(dl))

\* The rejection test that lets a one-day window through.
WindowRejectedStrict(start, end) == start > end

\* if start_date >= end_date: st.error(...); return
WindowRejected(start, end) == start >= end

\* pd.DateOffset(days=n) as a number of ticks
DateOffsetDays(n) == n * TicksPerDay

\* period_length = (pd.Timestamp(end_date) - pd.Timestamp(start_date)).days
PeriodLength(start, end) == TimedeltaDays(Timestamp(end) - Timestamp(start))

\* The previous start that makes the previous window as long, in calendar
\* days, as the inclusive current window.
PreviousStartEqualLength(start, end) ==
    Timestamp(start) - DateOffsetDays(PeriodLength(start, end) + 1)

\* previous_start = pd.Timestamp(start_date) - pd.DateOffset(days=period_length)
PreviousStart(start, end) ==
    Timestamp(start) - DateOffsetDays(PeriodLength(start, end))

\* The previous window ending at the instant the current one starts.
PreviousEndAtStart(start) == Timestamp(start)

\* previous_end = pd.Timestamp(start_date) - pd.DateOffset(days=1)
PreviousEnd(start) == Timestamp(start) - DateOffsetDays(1)

(***************************************************************************)
(* Actions.  The dashboard (app.py) and the library use of the loader are  *)
(* separate programs: the loader's own methods are exercised on a loader   *)
(* no dashboard run has used, and the dashboard runs while no library call *)
(* result is held.  Every run of the dashboard script starts from scratch  *)
(* (its frames are locals of main), so a run is modelled from the idle     *)
(* state.                                                                  *)
(***************************************************************************)
Base == DaysFromCivil(2023, 1, 1)

ScenarioEnd == DaysFromCivil(2023, 6, 30)

\* The days the model lets the user pick in the two date widgets.
SelectableDays == (Base .. Base + MaxSpan) \cup {ScenarioEnd}

LibraryUntouched == ~IsBuilt(sales_data) /\ raised = "" /\ revenue_metrics = {}

FreshRun == LibraryUntouched /\ outcome = "idle" /\ ~IsBuilt(current_data)

DashboardUntouched == outcome = "idle" /\ ~IsBuilt(current_data)

SetLoader(dl) ==
    /\ orders' = dl.orders
    /\ order_items' = dl.order_items
    /\ products' = dl.products
    /\ customers' = dl.customers
    /\ reviews' = dl.reviews

\* EcommerceDataLoader(data_path): __init__ sets the five tables to None and
\* validates the path; an exception leaves the caller with no loader.
Construct ==
    /\ instance = "absent"
    /\ init_error' = validate_data_path(fs)
    /\ instance' = IF validate_data_path(fs) = NaN THEN "constructed" ELSE "failed"
    /\ SetLoader([orders |-> NoTable, order_items |-> NoTable,
                  products |-> NoTable, customers |-> NoTable,
                  reviews |-> NoTable])
    /\ UNCHANGED <<csv, library_vars, main_vars, view_vars, fs>>

\* EcommerceDataLoader.load_all_datasets()
LoadAllDatasets ==
    /\ instance = "constructed"
    /\ SetLoader(load_all_datasets(csv))
    /\ UNCHANGED <<csv, library_vars, main_vars, view_vars, disk_vars>>

\* EcommerceDataLoader.prepare_sales_data(year, month, status)
PrepareSalesData(year, month, status) ==
    /\ instance = "constructed"
    /\ DashboardUntouched
    /\ revenue_metrics = {}
    /\ IF DatasetsLoaded(Loader)
       THEN /\ sales_data' = prepare_sales_data(Loader, year, month, status)
            /\ raised' = ""
       ELSE /\ raised' = "ValueError: Datasets must be loaded first"
            /\ UNCHANGED sales_data
    /\ UNCHANGED <<csv, loader_vars, revenue_metrics, main_vars, view_vars,
                   disk_vars>>

\* main() with a window the check at its top rejects
MainRejected(start, end) ==
    LET dl == load_all_datasets(csv)
    IN  /\ FreshRun
        /\ start \in DateInputRange(dl)
        /\ end \in DateInputRange(dl)
        /\ WindowRejected(start, end)
        /\ SetLoader(dl)
        /\ start_date' = Some(start)
        /\ end_date' = Some(end)
        /\ outcome' = "error"
        /\ previous_start' = NaN
        /\ previous_end' = NaN
        /\ current_data' = NoTable
        /\ previous_data' = NoTable
        /\ current_orders' = NoTable
        /\ previous_orders' = NoTable
        /\ kpis' = {}
        /\ cards' = {}
        /\ UNCHANGED <<csv, library_vars, view_vars, disk_vars>>

\* main() with a window it accepts: both fact tables, the KPIs, the charts
\* and the two bottom cards.
MainRendered(start, end) ==
    LET dl    == load_all_datasets(csv)
        cur   == filter_data_by_date(dl, Timestamp(start), Timestamp(end))
        pstart == PreviousStart(start, end)
        pend   == PreviousEnd(start)
        prev  == filter_data_by_date(dl, pstart, pend)
        res   == calculate_kpis(cur.sales_data, prev.sales_data)
    IN  /\ FreshRun
        /\ start \in DateInputRange(dl)
        /\ end \in DateInputRange(dl)
        /\ ~WindowRejected(start, end)
        /\ SetLoader(dl)
        /\ start_date' = Some(start)
        /\ end_date' = Some(end)
        /\ outcome' = "rendered"
        /\ previous_start' = Some(pstart)
        /\ previous_end' = Some(pend)
        /\ current_data' = res.current_data
        /\ previous_data' = res.previous_data
        /\ current_orders' = cur.filtered_orders
        /\ previous_orders' = prev.filtered_orders
        /\ kpis' = Some(res.kpis)
        /\ cards' = Some(create_bottom_cards(res.current_data))
        /\ UNCHANGED <<csv, library_vars, view_vars, disk_vars>>

\* calculate_kpis(current_data, previous_data) on two built frames
CalculateKpis ==
    LET res == calculate_kpis(current_data, previous_data)
    IN  /\ IsBuilt(current_data)
        /\ IsBuilt(previous_data)
        /\ kpis' = Some(res.kpis)
        /\ current_data' = res.current_data
        /\ previous_data' = res.previous_data
        /\ UNCHANGED <<csv, loader_vars, library_vars, start_date, end_date,
                       outcome, previous_start, previous_end, current_orders,
                       previous_orders, cards, view_vars, disk_vars>>

\* create_bottom_cards(current_data), which main calls once the KPIs are shown
CreateBottomCards ==
    /\ IsBuilt(current_data)
    /\ kpis # {}
    /\ cards' = Some(create_bottom_cards(current_data))
    /\ UNCHANGED <<csv, loader_vars, library_vars, start_date, end_date,
                   outcome, previous_start, previous_end, current_data,
                   previous_data, current_orders, previous_orders, kpis,
                   view_vars, disk_vars>>

\* EcommerceMetrics.calculate_revenue_metrics(current_data[, previous_data]),
\* on the frames calculate_kpis was given
CalculateRevenueMetrics(with_comparison) ==
    LET res == calculate_revenue_metrics(
                   current_data,
                   IF with_comparison THEN previous_data ELSE NoTable)
    IN  /\ IsBuilt(current_data)
        /\ IsBuilt(previous_data)
        /\ kpis # {}
        /\ raised' = res.error
        /\ revenue_metrics' = res.metrics
        /\ UNCHANGED <<csv, loader_vars, sales_data, main_vars, view_vars,
                       disk_vars>>

\* A direct call of a chart or analysis function, as the triple of its name
\* (r[1]), the argument it was given (r[2]) and what it returned (r[3]).
Call(name, data, result) == <<name, data, result>>

\* EcommerceMetrics.calculate_monthly_trends(sales_data) on the frame
\* prepare_sales_data returned
CalculateMonthlyTrends ==
    /\ IsBuilt(sales_data)
    /\ returned' = Some(Call("calculate_monthly_trends", sales_data,
                             calculate_monthly_trends(sales_data)))
    /\ UNCHANGED <<csv, loader_vars, library_vars, main_vars, disk_vars>>

\* create_revenue_trend_chart(current_data, previous_data)
CreateRevenueTrendChart ==
    LET res == create_revenue_trend_chart(current_data, previous_data)
    IN  /\ IsBuilt(current_data)
        /\ IsBuilt(previous_data)
        /\ returned' = Some(Call("create_revenue_trend_chart", current_data,
                                 res.figure))
        /\ current_data' = res.current_data
        /\ previous_data' = res.previous_data
        /\ UNCHANGED <<csv, loader_vars, library_vars, start_date, end_date,
                       outcome, previous_start, previous_end, current_orders,
                       previous_orders, kpis, cards, disk_vars>>

\* What a chart or analysis call leaves alone: everything but returned.
OnlyReturns ==
    UNCHANGED <<csv, loader_vars, library_vars, main_vars, disk_vars>>

\* create_category_chart(current_data)
CreateCategoryChart ==
    /\ IsBuilt(current_data)
    /\ \E sorted \in DescendingOrders(
                         Range(RevenueBy(current_data, "product_category_name"))) :
          returned' = Some(Call("create_category_chart", current_data,
                                create_category_chart(current_data, sorted)))
    /\ OnlyReturns

\* create_state_map(current_data)
CreateStateMap ==
    /\ IsBuilt(current_data)
    /\ returned' = Some(Call("create_state_map", current_data,
                             create_state_map(current_data)))
    /\ OnlyReturns

\* EcommerceMetrics.analyze_product_performance(current_data)
AnalyzeProductPerformance ==
    /\ IsBuilt(current_data)
    /\ \E sorted \in DescendingOrders(
                         Range(RevenueBy(current_data, "product_category_name"))) :
          returned' = Some(Call("analyze_product_performance", current_data,
                                analyze_product_performance(current_data, sorted)))
    /\ OnlyReturns

\* EcommerceMetrics.analyze_geographic_performance(current_data)
AnalyzeGeographicPerformance ==
    /\ IsBuilt(current_data)
    /\ \E sorted \in DescendingOrders(
                         Range(RevenueBy(current_data, "customer_state"))) :
          returned' = Some(Call("analyze_geographic_performance", current_data,
                                analyze_geographic_performance(current_data, sorted)))
    /\ OnlyReturns

\* create_satisfaction_delivery_chart(current_data), under either default
\* of groupby's observed
CreateSatisfactionDeliveryChart(observed) ==
    /\ IsBuilt(current_data)
    /\ returned' = Some(Call("create_satisfaction_delivery_chart", current_data,
                             create_satisfaction_delivery_chart(current_data,
                                                                observed)))
    /\ OnlyReturns

\* EcommerceMetrics.analyze_customer_experience(current_data)
AnalyzeCustomerExperience ==
    /\ IsBuilt(current_data)
    /\ returned' = Some(Call("analyze_customer_experience", current_data,
                             analyze_customer_experience(current_data)))
    /\ OnlyReturns

\* EcommerceDataLoader.categorize_delivery_speed(days)
CategorizeDeliverySpeed(days) ==
    /\ instance = "constructed"
    /\ returned' = Some(Call("categorize_delivery_speed", [days |-> days],
                             categorize_delivery_speed(days)))
    /\ OnlyReturns

\* A get_sales_with_* call on the constructed loader: it returns a frame or
\* raises, and sets no attribute of the loader.
GetSales(name, year, month, res) ==
    /\ instance = "constructed"
    /\ returned' = Some(Call(name, [year |-> year, month |-> month], res.frame))
    /\ raised' = res.error
    /\ UNCHANGED <<csv, loader_vars, sales_data, revenue_metrics, main_vars,
                   disk_vars>>

GetSalesWithProducts(year, month) ==
    GetSales("get_sales_with_products", year, month,
             get_sales_with_products(Loader, year, month))

GetSalesWithCustomers(year, month) ==
    GetSales("get_sales_with_customers", year, month,
             get_sales_with_customers(Loader, year, month))

GetSalesWithReviews(year, month) ==
    GetSales("get_sales_with_reviews", year, month,
             get_sales_with_reviews(Loader, year, month))

Next ==
    \/ LoadAllDatasets
    \/ \E year \in {NaN, Some(2023)}, month \in {NaN, Some(1)},
          status \in {"delivered", ""} :
          PrepareSalesData(year, month, status)
    \/ \E start \in SelectableDays, end \in SelectableDays :
          MainRejected(start, end)
    \/ \E start \in SelectableDays, end \in SelectableDays :
          MainRendered(start, end)
    \/ CalculateKpis
    \/ CreateBottomCards
    \/ \E with_comparison \in BOOLEAN : CalculateRevenueMetrics(with_comparison)
    \/ CalculateMonthlyTrends
    \/ CreateRevenueTrendChart

(***************************************************************************)
(* Initial states: the files on disk, and for the metrics functions the    *)
(* frames they are applied to.                                             *)
(***************************************************************************)
OkCell(ts) == [text |-> "ok", ts |-> ts]

GarbageCell == [text |-> "garbage", ts |-> 0]

EmptyCell == [text |-> "empty", ts |-> 0]

Item(order_id, order_item_id, product_id, price) ==
    [order_id |-> order_id, order_item_id |-> order_item_id,
     product_id |-> product_id, price |-> price]

\* A data_path holding all the required files.
FullDisk == [exists |-> TRUE, files |-> Range(required_files)]

Untouched(files) ==
    /\ fs = FullDisk
    /\ instance = "constructed"
    /\ init_error = {}
    /\ csv = files
    /\ orders = NoTable
    /\ order_items = NoTable
    /\ products = NoTable
    /\ customers = NoTable
    /\ reviews = NoTable
    /\ sales_data = NoTable
    /\ raised = ""
    /\ revenue_metrics = {}
    /\ start_date = NaN
    /\ end_date = NaN
    /\ outcome = "idle"
    /\ previous_start = NaN
    /\ previous_end = NaN
    /\ current_orders = NoTable
    /\ previous_orders = NoTable
    /\ kpis = {}
    /\ cards = {}
    /\ returned = {}

\* Datasets for the window: two delivered orders, each purchased at any instant
\* of the days around the selectable ones (or with an unparseable timestamp).
WindowPurchaseCells ==
    {OkCell(Timestamp(d) + k) :
        d \in ((Base - MaxSpan - 1) .. (Base + MaxSpan)) \cup {ScenarioEnd},
        k \in 0 .. (TicksPerDay - 1)}
      \cup {GarbageCell}

WindowOrder(id, cell) ==
    [order_id |-> id, customer_id |-> id, order_status |-> "delivered",
     order_purchase_timestamp |-> cell,
     order_delivered_customer_date |->
         IF cell.text = "ok" THEN OkCell(cell.ts + TicksPerDay)
         ELSE OkCell(Timestamp(Base + 1))]

WindowDataset(c1, c2) ==
    [orders      |-> <<WindowOrder(1, c1), WindowOrder(2, c2)>>,
     order_items |-> <<Item(1, 1, 1, 100), Item(2, 1, 1, 50)>>,
     products    |-> <<[product_id |-> 1,
                        product_category_name |-> Some("bed_bath_table")]>>,
     customers   |-> <<[customer_id |-> 1, customer_state |-> Some("SP")],
                       [customer_id |-> 2, customer_state |-> Some("RJ")]>>,
     reviews     |-> <<[order_id |-> 1, review_score |-> Some(5)],
                       [order_id |-> 2, review_score |-> Some(4)]>>]

WindowDatasets ==
    {WindowDataset(c1, c2) : c1 \in WindowPurchaseCells, c2 \in WindowPurchaseCells}

\* The same with a third delivered order, of one item, whose purchase
\* timestamp is unparseable.
AbsentTimestampDatasets ==
    {[d EXCEPT !.orders = Append(@, WindowOrder(3, GarbageCell)),
               !.order_items = Append(@, Item(3, 1, 1, 200))] :
        d \in WindowDatasets}

Init ==
    /\ \E files \in WindowDatasets \cup AbsentTimestampDatasets : Untouched(files)
    /\ current_data = NoTable
    /\ previous_data = NoTable

Spec == Init /\ [][Next]_vars

(***************************************************************************)
(* Datasets for the joins: two orders purchased at midnight of the first   *)
(* two selectable days, each of any status and with its delivered date     *)
(* present or absent, with 0..MaxItems items and 0..MaxReviews reviews.    *)
(* Product 1 and customer 1 are the only ones on file; the last item row   *)
(* belongs to no order.                                                    *)
(***************************************************************************)
JoinShapes ==
    [status : {"delivered", "shipped"}, has_delivered_date : BOOLEAN,
     n_items : 0..MaxItems, n_reviews : 0..MaxReviews]

JoinOrder(id, shape) ==
    [order_id |-> id, customer_id |-> id, order_status |-> shape.status,
     order_purchase_timestamp |-> OkCell(Timestamp(Base + id - 1)),
     order_delivered_customer_date |->
         IF shape.has_delivered_date
         THEN OkCell(Timestamp(Base + id + 2) + 1)
         ELSE EmptyCell]

JoinItems(id, shape) ==
    [j \in 1..shape.n_items |-> Item(id, j, j, IF j = 1 THEN 100 ELSE 50)]

JoinReviews(id, shape) ==
    [j \in 1..shape.n_reviews |-> [order_id |-> id, review_score |-> Some(6 - j)]]

JoinDataset(s1, s2) ==
    [orders      |-> <<JoinOrder(1, s1), JoinOrder(2, s2)>>,
     order_items |-> JoinItems(1, s1) \o JoinItems(2, s2) \o <<Item(9, 1, 1, 7)>>,
     products    |-> <<[product_id |-> 1,
                        product_category_name |-> Some("bed_bath_table")]>>,
     customers   |-> <<[customer_id |-> 1, customer_state |-> Some("SP")]>>,
     reviews     |-> JoinReviews(1, s1) \o JoinReviews(2, s2)]

JoinDatasets == {JoinDataset(s1, s2) : s1 \in JoinShapes, s2 \in JoinShapes}

InitJoin ==
    /\ \E files \in JoinDatasets : Untouched(files)
    /\ current_data = NoTable
    /\ previous_data = NoTable

SpecJoin == InitJoin /\ [][Next]_vars

(***************************************************************************)
(* Frames for the metrics functions: calculate_kpis, create_bottom_cards   *)
(* and calculate_revenue_metrics applied to a current and a previous fact  *)
(* frame of at most MaxRows rows each.                                     *)
(***************************************************************************)
MetricsRow(order_id, price, ts, delivery_days) ==
    [order_id                 |-> order_id,
     order_item_id            |-> 1,
     product_id               |-> 1,
     price                    |-> price,
     customer_id              |-> order_id,
     order_status             |-> "delivered",
     order_purchase_timestamp |-> Some(ts),
     delivery_days            |-> Some(delivery_days),
     product_category_name    |-> Some("bed_bath_table"),
     customer_state           |-> Some("SP"),
     review_score             |-> Some(5),
     year_month               |-> NaN]

\* The frames of at most n rows drawn from the row kinds in the sequence
\* kinds, one frame per multiset of rows.
FramesOver(kinds, n) ==
    UNION {{Frame(FactColumns, [i \in 1..k |-> kinds[f[i]]]) :
               f \in {g \in [1..k -> 1..Len(kinds)] :
                         \A i \in 1..k, j \in 1..k : i <= j => g[i] <= g[j]}} :
           k \in 0..n}

MetricPrices == <<-50, 50, 100>>

MetricDeliveryDays == <<-2, 2, 5>>

\* Period comparison: rows of two orders and three prices in each window.
PeriodKinds(day) ==
    [i \in 1..(2 * Len(MetricPrices)) |->
        MetricsRow(1 + ((i - 1) \div Len(MetricPrices)),
                   MetricPrices[1 + ((i - 1) % Len(MetricPrices))],
                   Timestamp(day), 2)]

\* Monthly series and delivery trend: one order per month over three
\* consecutive months spanning a change of year.
MonthlyKinds ==
    [i \in 1..(3 * Len(MetricPrices) * Len(MetricDeliveryDays)) |->
        LET m  == 1 + ((i - 1) \div (Len(MetricPrices) * Len(MetricDeliveryDays)))
            p  == 1 + (((i - 1) \div Len(MetricDeliveryDays)) % Len(MetricPrices))
            dd == 1 + ((i - 1) % Len(MetricDeliveryDays))
        IN  MetricsRow(m, MetricPrices[p],
                       Timestamp(DaysFromCivil(2022, 12, 15) + 31 * (m - 1)),
                       MetricDeliveryDays[dd])]

\* One order in each of the three months, at any of the prices.
ThreeMonthFrames ==
    {Frame(FactColumns,
           [m \in 1..3 |->
               MetricsRow(m, MetricPrices[f[m]],
                          Timestamp(DaysFromCivil(2022, 12, 15) + 31 * (m - 1)), 2)]) :
        f \in [1..3 -> 1..Len(MetricPrices)]}

\* Review summary: rows of one order with any review score, or none.
ReviewKinds ==
    [i \in 1..6 |->
        [MetricsRow(1, 50, Timestamp(DaysFromCivil(2023, 1, 15)), 2)
            EXCEPT !.review_score = IF i = 6 THEN NaN ELSE Some(i)]]

\* Baskets: one order of two items and one order of one item, each item at
\* any of the prices.
BasketFrames ==
    {Frame(FactColumns,
           [i \in 1..3 |->
               [MetricsRow(IF i = 3 THEN 2 ELSE 1, MetricPrices[f[i]],
                           Timestamp(DaysFromCivil(2023, 1, 15)), 2)
                   EXCEPT !.order_item_id = IF i = 2 THEN 2 ELSE 1]]) :
        f \in [1..3 -> 1..Len(MetricPrices)]}

MetricsFramePairs ==
    {<<c, q>> : c \in FramesOver(PeriodKinds(DaysFromCivil(2023, 1, 15)), MaxRows),
                q \in FramesOver(PeriodKinds(DaysFromCivil(2022, 12, 15)), MaxRows)}
      \cup {<<c, q>> : c \in FramesOver(MonthlyKinds, MaxRows),
                        q \in FramesOver(<<PeriodKinds(DaysFromCivil(2022, 11, 15))[2]>>, 1)}
      \cup {<<c, Frame(FactColumns, <<>>)>> : c \in ThreeMonthFrames}
      \cup {<<c, Frame(FactColumns, <<>>)>> : c \in FramesOver(ReviewKinds, MaxRows)}
      \cup {<<c, Frame(FactColumns, <<>>)>> : c \in BasketFrames}

InitMetrics ==
    /\ Untouched(WindowDataset(OkCell(Timestamp(Base)), OkCell(Timestamp(Base + 1))))
    /\ \E pair \in MetricsFramePairs :
          /\ current_data = pair[1]
          /\ previous_data = pair[2]

\* The metrics functions alone.
NextMetrics ==
    \/ CalculateKpis
    \/ CreateBottomCards
    \/ \E with_comparison \in BOOLEAN : CalculateRevenueMetrics(with_comparison)

SpecMetrics == InitMetrics /\ [][NextMetrics]_vars

(***************************************************************************)
(* Frames for the charts and the breakdowns.  The breakdown frames hold    *)
(* one row for each of nine categories (and states) of distinct revenue,   *)
(* the alphabetically last nine, one row of the highest price with neither *)
(* category nor state, and at most MaxRows further rows of the first       *)
(* categories, of a category of the nine, or with no category or no state. *)
(***************************************************************************)
BreakdownRow(category, state, price) ==
    [MetricsRow(1, price, Timestamp(DaysFromCivil(2023, 1, 15)), 2)
        EXCEPT !.product_category_name = category, !.customer_state = state]

NinePrices == [k \in 1..9 |-> 100 + 100 * k]

NineRows ==
    [k \in 1..9 |-> BreakdownRow(Some(CategoryNames[k + 3]),
                                  Some(StateNames[k + 3]), NinePrices[k])]

ExtraKinds ==
    LET shapes == <<<<Some(CategoryNames[1]), Some(StateNames[1])>>,
                    <<Some(CategoryNames[2]), Some(StateNames[2])>>,
                    <<Some(CategoryNames[3]), Some(StateNames[3])>>,
                    <<NaN, Some(StateNames[1])>>,
                    <<Some(CategoryNames[4]), NaN>>>>
    IN  [i \in 1..(2 * Len(shapes)) |->
            BreakdownRow(shapes[1 + ((i - 1) \div 2)][1],
                         shapes[1 + ((i - 1) \div 2)][2],
                         IF i % 2 = 1 THEN 50 ELSE 100)]

BreakdownFrames ==
    {Frame(FactColumns, NineRows \o <<BreakdownRow(NaN, NaN, 2000)>> \o extra.rows) :
        extra \in FramesOver(ExtraKinds, MaxRows)}
      \cup FramesOver(ExtraKinds, MaxRows)

\* Delivery against satisfaction: rows with delivery days on either side of
\* each bucket edge, or none, and with a review score or none; and the same
\* rows in a frame that lacks one of the two columns.
BucketDays == <<0, 3, 4, 7, 8, 14, 15>>

SatisfactionKinds ==
    [i \in 1..(3 * (Len(BucketDays) + 1)) |->
        LET d  == 1 + ((i - 1) \div 3)
            sc == 1 + ((i - 1) % 3)
        IN  [MetricsRow(1, 50, Timestamp(DaysFromCivil(2023, 1, 15)), 2)
                EXCEPT !.delivery_days = IF d > Len(BucketDays) THEN NaN
                                         ELSE Some(BucketDays[d]),
                       !.review_score = <<NaN, Some(2), Some(5)>>[sc]]]

SatisfactionFrames ==
    FramesOver(SatisfactionKinds, MaxRows)
      \cup {Frame(FactColumns \ {column}, f.rows) :
               column \in {"review_score", "delivery_days"},
               f \in FramesOver(SatisfactionKinds, 1)}

InitCharts ==
    /\ Untouched(WindowDataset(OkCell(Timestamp(Base)), OkCell(Timestamp(Base + 1))))
    /\ current_data \in BreakdownFrames \cup SatisfactionFrames
    /\ previous_data = Frame(FactColumns, <<>>)

\* The chart and analysis functions alone.
NextCharts ==
    \/ CreateRevenueTrendChart
    \/ CreateCategoryChart
    \/ CreateStateMap
    \/ AnalyzeProductPerformance
    \/ AnalyzeGeographicPerformance
    \/ \E observed \in BOOLEAN : CreateSatisfactionDeliveryChart(observed)
    \/ AnalyzeCustomerExperience
    \/ \E d \in 1..Len(BucketDays) : CategorizeDeliverySpeed(BucketDays[d])

SpecCharts == InitCharts /\ [][NextCharts]_vars

(***************************************************************************)
(* The loader's construction: a data_path that does not exist, or exists   *)
(* and holds any subset of the required files.                             *)
(***************************************************************************)
Disks ==
    {[exists |-> FALSE, files |-> {}]}
      \cup {[exists |-> TRUE, files |-> F] : F \in SUBSET Range(required_files)}

InitLoader ==
    /\ \E c \in {OkCell(Timestamp(Base - 1)), OkCell(Timestamp(Base)),
                  GarbageCell} :
          csv = WindowDataset(c, OkCell(Timestamp(Base + 1)))
    /\ fs \in Disks
    /\ instance = "absent"
    /\ init_error = {}
    /\ orders = NoTable
    /\ order_items = NoTable
    /\ products = NoTable
    /\ customers = NoTable
    /\ reviews = NoTable
    /\ sales_data = NoTable
    /\ raised = ""
    /\ revenue_metrics = {}
    /\ start_date = NaN
    /\ end_date = NaN
    /\ outcome = "idle"
    /\ previous_start = NaN
    /\ previous_end = NaN
    /\ current_data = NoTable
    /\ previous_data = NoTable
    /\ current_orders = NoTable
    /\ previous_orders = NoTable
    /\ kpis = {}
    /\ cards = {}
    /\ returned = {}

\* The loader on its own: construction, then its methods.
NextLoader ==
    \/ Construct
    \/ LoadAllDatasets
    \/ \E year \in {NaN, Some(2023)}, month \in {NaN, Some(1)},
          status \in {"delivered", ""} :
          PrepareSalesData(year, month, status)
    \/ \E year \in {NaN, Some(2023)}, month \in {NaN, Some(1)} :
          GetSalesWithProducts(year, month)
    \/ \E year \in {NaN, Some(2023)}, month \in {NaN, Some(1)} :
          GetSalesWithCustomers(year, month)
    \/ \E year \in {NaN, Some(2023)}, month \in {NaN, Some(1)} :
          GetSalesWithReviews(year, month)

SpecLoader == InitLoader /\ [][NextLoader]_vars

(***************************************************************************)
(* Properties.                                                             *)
(***************************************************************************)
Rendered == outcome = "rendered"

\* The number of calendar days of the inclusive range of days first..last.
InclusiveDays(first, last) == last - first + 1

CurrentWindowDays == InclusiveDays(Val(start_date), Val(end_date))

PreviousWindowDays ==
    InclusiveDays(DateOf(Val(previous_start)), DateOf(Val(previous_end)))

\* A float g is the fraction num / den (den # 0).
RatEq(g, num, den) == g.kind = "num" /\ g.n * den = num * g.d

PricesOf(rows) == [i \in 1..Len(rows) |-> rows[i].price]

DistinctOrders(rows) == Cardinality({rows[i].order_id : i \in 1..Len(rows)})

\* C1: for every accepted window start < end, the previous window main
\* computes has as many calendar days as the inclusive current window
\* [start, end], and previous_end is exactly one day before start.
C1_PreviousWindowSameLength ==
    Rendered =>
        /\ PreviousWindowDays = CurrentWindowDays
        /\ previous_end = Some(Timestamp(Val(start_date) - 1))

ScenarioWindow ==
    /\ Rendered
    /\ start_date = Some(DaysFromCivil(2023, 1, 1))
    /\ end_date = Some(DaysFromCivil(2023, 6, 30))

C3_InvalidWindowRejected ==
    /\ outcome = "error" =>
          /\ Val(start_date) >= Val(end_date)
          /\ ~IsBuilt(current_data)
          /\ ~IsBuilt(previous_data)
          /\ kpis = {}
    /\ Rendered =>
          /\ Val(start_date) < Val(end_date)
          /\ IsBuilt(current_data)
          /\ IsBuilt(previous_data)

C3_Witness == outcome = "error" /\ start_date = end_date /\ kpis = {}

\* C4: the window is inclusive on both ends: an order is selected for the
\* current window exactly when its purchase timestamp falls, at any time of
\* day, on a calendar day from start through end.
C4_WindowInclusiveOnBothEnds ==
    Rendered =>
        \A i \in 1..Len(orders.rows) :
            (\E j \in 1..Len(current_orders.rows) :
                current_orders.rows[j] = orders.rows[i])
            <=> /\ notna(orders.rows[i].order_purchase_timestamp)
                /\ DateOf(Val(orders.rows[i].order_purchase_timestamp))
                     \in Val(start_date)..Val(end_date)

\* The order a row belongs to is on file as delivered with its
\* delivered-customer timestamp present.
OfDeliveredOrder(row) ==
    \E k \in 1..Len(orders.rows) :
        /\ orders.rows[k].order_id = row.order_id
        /\ orders.rows[k].order_status = "delivered"
        /\ notna(orders.rows[k].order_delivered_customer_date)

\* C5: every row of a built sales fact table belongs to an order whose
\* status is 'delivered' and whose delivered-customer timestamp is present,
\* in the tables filter_data_by_date builds and in the table
\* prepare_sales_data builds with its default status.
C5_FactRowsOfDeliveredOrders ==
    /\ \A i \in 1..Len(current_data.rows) : OfDeliveredOrder(current_data.rows[i])
    /\ \A i \in 1..Len(previous_data.rows) : OfDeliveredOrder(previous_data.rows[i])
    /\ "delivery_days" \in sales_data.columns =>
          \A i \in 1..Len(sales_data.rows) : OfDeliveredOrder(sales_data.rows[i])

\* The order items of the orders selected for the current window that are
\* delivered with a delivered-customer timestamp.
SelectedItems ==
    {i \in 1..Len(order_items.rows) :
        \E k \in 1..Len(current_orders.rows) :
            /\ current_orders.rows[k].order_id = order_items.rows[i].order_id
            /\ current_orders.rows[k].order_status = "delivered"
            /\ notna(current_orders.rows[k].order_delivered_customer_date)}

RowsOfItem(i) ==
    {j \in 1..Len(current_data.rows) :
        /\ current_data.rows[j].order_id = order_items.rows[i].order_id
        /\ current_data.rows[j].order_item_id = order_items.rows[i].order_item_id}

\* C6: the fact table has exactly one row per order item of each selected
\* delivered order, whatever the products, customers and reviews tables hold
\* (several reviews of one order included), and total revenue is the sum of
\* price over those items, none counted twice.
C6_OneRowPerOrderItem ==
    Rendered =>
        /\ Len(current_data.rows) = Cardinality(SelectedItems)
        /\ \A i \in SelectedItems : Cardinality(RowsOfItem(i)) = 1
        /\ \A k \in kpis :
              k.total_revenue =
                  Num(SumSeq([i \in 1..Len(order_items.rows) |->
                                 IF i \in SelectedItems
                                 THEN order_items.rows[i].price ELSE 0]), 1)

ProductOnFile(it) ==
    \E k \in 1..Len(products.rows) : products.rows[k].product_id = it.product_id

CustomerOnFile(o) ==
    \E k \in 1..Len(customers.rows) : customers.rows[k].customer_id = o.customer_id

\* C7: an order item of a selected order whose product_id matches no product,
\* or whose order's customer_id matches no customer, still has a row in the
\* fact table with its price and other fields intact and an absent
\* category/state, and total revenue is the sum of price over all the rows
\* of the table, that row included.
C7_UnmatchedRowsKept ==
    Rendered =>
        /\ \A i \in SelectedItems :
              \A k \in 1..Len(current_orders.rows) :
                  LET it == order_items.rows[i]
                      o  == current_orders.rows[k]
                  IN  (/\ o.order_id = it.order_id
                       /\ (~ProductOnFile(it) \/ ~CustomerOnFile(o)))
                      => \E j \in RowsOfItem(i) :
                            LET r == current_data.rows[j]
                            IN  /\ r.price = it.price
                                /\ r.product_id = it.product_id
                                /\ r.customer_id = o.customer_id
                                /\ r.order_status = o.order_status
                                /\ r.order_purchase_timestamp = o.order_purchase_timestamp
                                /\ ~ProductOnFile(it) => r.product_category_name = NaN
                                /\ ~CustomerOnFile(o) => r.customer_state = NaN
        /\ \A k \in kpis :
              k.total_revenue = Num(SumSeq(PricesOf(current_data.rows)), 1)

C7_Witness ==
    /\ Rendered
    /\ \E j \in 1..Len(current_data.rows) :
          /\ current_data.rows[j].product_category_name = NaN
          /\ current_data.rows[j].customer_state = NaN
          /\ current_data.rows[j].price > 0
    /\ kpis # {}

\* C8: avg_order_value is total revenue divided by the distinct count of
\* order_id, and exactly 0 when there is no order (the empty fact set
\* included), in calculate_kpis and in calculate_revenue_metrics.
C8_AvgOrderValue ==
    LET revenue  == SumSeq(PricesOf(current_data.rows))
        n_orders == DistinctOrders(current_data.rows)
        Expected(aov) == IF n_orders = 0 THEN aov = Zero
                         ELSE RatEq(aov, revenue, n_orders)
    IN  /\ \A k \in kpis : Expected(k.avg_order_value)
        /\ \A m \in revenue_metrics : Expected(m.avg_order_value)

\* C9: a growth rate against a zero baseline is 0: with an empty
\* previous-period fact set the revenue, order and AOV growth rates are all
\* 0, never infinite, NaN or an error, in calculate_kpis and in
\* calculate_revenue_metrics given the empty comparison set.
C9_ZeroBaselineGrowthIsZero ==
    (IsBuilt(previous_data) /\ Len(previous_data.rows) = 0) =>
        /\ \A k \in kpis :
              /\ k.revenue_growth = Zero
              /\ k.orders_growth = Zero
              /\ k.aov_growth = Zero
        /\ raised # "ZeroDivisionError"
        /\ \A m \in revenue_metrics :
              m.compared =>
                  /\ m.revenue_growth_rate = Zero
                  /\ m.order_growth_rate = Zero
                  /\ m.aov_growth_rate = Zero

\* A value as a fraction <<numerator, denominator>> with denominator > 0.
Frac(n, d) == <<n, d>>

\* total / count as a fraction, 0 when there is nothing to count
Ratio(total, count) == IF count > 0 THEN Frac(total, count) ELSE Frac(0, 1)

\* g = (x - p) / p * 100 for fractions x and p, p # 0
IsPctChange(g, x, p) ==
    RatEq(g, 100 * (x[1] * p[2] - p[1] * x[2]), p[1] * x[2])

\* g = (p - x) / p * 100: the orientation of the delivery trend
IsPctDrop(g, x, p) ==
    RatEq(g, 100 * (p[1] * x[2] - x[1] * p[2]), p[1] * x[2])

\* The calendar months (as periods) of a sequence of rows.
MonthsOf(rows) ==
    {to_period_M(Val(rows[i].order_purchase_timestamp)) :
        i \in {j \in 1..Len(rows) : notna(rows[j].order_purchase_timestamp)}}

RowsInMonth(rows, m) ==
    SelectSeq(rows, LAMBDA r : /\ notna(r.order_purchase_timestamp)
                               /\ to_period_M(Val(r.order_purchase_timestamp)) = m)

LatestMonth(rows) == CHOOSE m \in MonthsOf(rows) : \A q \in MonthsOf(rows) : q <= m

\* The latest month with a row before the latest month present.
PriorMonth(rows) ==
    CHOOSE m \in MonthsOf(rows) \ {LatestMonth(rows)} :
        \A q \in MonthsOf(rows) \ {LatestMonth(rows)} : q <= m

DeliveredRows(rows) == SelectSeq(rows, LAMBDA r : notna(r.delivery_days))

DeliveryMean(rows) ==
    Frac(SumSeq([i \in 1..Len(rows) |-> Val(rows[i].delivery_days)]), Len(rows))

\* The five rates with the value x and the baseline p each compares, as
\* fractions: revenue, orders, AOV, month over month, and the delivery trend
\* (whose baseline is the mean of the month before the latest, or the overall
\* mean when that month has no row).
RevenueX == Frac(SumSeq(PricesOf(current_data.rows)), 1)

RevenueP == Frac(SumSeq(PricesOf(previous_data.rows)), 1)

OrdersX == Frac(DistinctOrders(current_data.rows), 1)

OrdersP == Frac(DistinctOrders(previous_data.rows), 1)

AovX == Ratio(RevenueX[1], OrdersX[1])

AovP == Ratio(RevenueP[1], OrdersP[1])

HasTwoMonths == Cardinality(MonthsOf(current_data.rows)) >= 2

MonthX ==
    Frac(SumSeq(PricesOf(RowsInMonth(current_data.rows,
                                     LatestMonth(current_data.rows)))), 1)

MonthP ==
    Frac(SumSeq(PricesOf(RowsInMonth(current_data.rows,
                                     PriorMonth(current_data.rows)))), 1)

HasDelivery == DeliveredRows(current_data.rows) # <<>>

DeliveryX ==
    DeliveryMean(RowsInMonth(DeliveredRows(current_data.rows),
                             LatestMonth(DeliveredRows(current_data.rows))))

DeliveryP ==
    LET delivered == DeliveredRows(current_data.rows)
        before    == RowsInMonth(delivered, LatestMonth(delivered) - 1)
    IN  IF before # <<>> THEN DeliveryMean(before) ELSE DeliveryMean(delivered)

\* C10 as stated: for every current value x and every baseline p # 0,
\* positive or negative, each growth rate the code computes (revenue, orders,
\* AOV, month over month, delivery trend) equals (x - p) / p * 100 in its own
\* orientation.
C10_GrowthForEveryNonzeroBaseline ==
    /\ \A k \in kpis :
          /\ RevenueP[1] # 0 => IsPctChange(k.revenue_growth, RevenueX, RevenueP)
          /\ OrdersP[1] # 0 => IsPctChange(k.orders_growth, OrdersX, OrdersP)
          /\ AovP[1] # 0 => IsPctChange(k.aov_growth, AovX, AovP)
          /\ (HasTwoMonths /\ MonthP[1] # 0)
                => IsPctChange(k.monthly_growth, MonthX, MonthP)
    /\ \A c \in cards :
          (HasDelivery /\ DeliveryP[1] # 0)
              => IsPctDrop(c.delivery.delivery_trend, DeliveryX, DeliveryP)

\* C10 as amended: for every current value x and every baseline p > 0 each
\* growth rate the code computes (revenue, orders, AOV, month over month,
\* delivery trend) equals (x - p) / p * 100 in its own orientation, and for
\* every baseline p <= 0 the rate is 0.
C10_GrowthForPositiveBaseline ==
    LET Holds(g, x, p) == IF p[1] > 0 THEN IsPctChange(g, x, p) ELSE g = Zero
        HoldsDrop(g, x, p) == IF p[1] > 0 THEN IsPctDrop(g, x, p) ELSE g = Zero
    IN  /\ \A k \in kpis :
              /\ Holds(k.revenue_growth, RevenueX, RevenueP)
              /\ Holds(k.orders_growth, OrdersX, OrdersP)
              /\ Holds(k.aov_growth, AovX, AovP)
              /\ HasTwoMonths => Holds(k.monthly_growth, MonthX, MonthP)
        /\ \A c \in cards :
              HasDelivery => HoldsDrop(c.delivery.delivery_trend, DeliveryX, DeliveryP)

\* Every rate of the KPI dict has a positive baseline and is not 0.
C10_Witness ==
    /\ RevenueP[1] > 0
    /\ \E k \in kpis :
          /\ k.revenue_growth # Zero
          /\ k.orders_growth # Zero
          /\ k.aov_growth # Zero
          /\ k.monthly_growth # Zero
    /\ \E c \in cards : c.delivery.delivery_trend # Zero

\* C11: no metric computation raises on empty input: calculate_kpis and
\* calculate_revenue_metrics return a result, not an exception, when the
\* current fact set is empty, when the previous (comparison) fact set is
\* empty, and when both are.
C11_NoRaiseOnEmptyInput ==
    (/\ IsBuilt(current_data)
     /\ IsBuilt(previous_data)
     /\ (current_data.rows = <<>> \/ previous_data.rows = <<>>))
        => raised = ""

\* The calendar months, as periods in chronological order, of the rows of a
\* frame that have a purchase timestamp.
CalendarMonths(df) == SortedSeq(MonthsOf(df.rows))

\* The series has one entry per calendar month of the frame, in
\* chronological order, each with the sum of price of the month's rows;
\* Key(entry) is the calendar month (a period) an entry stands for.
IsMonthlySeriesOf(series, df, Key(_), Revenue(_)) ==
    LET months == CalendarMonths(df)
    IN  /\ Len(series) = Len(months)
        /\ \A k \in 1..Len(series) :
              /\ Key(series[k]) = months[k]
              /\ Revenue(series[k]) =
                     SumSeq(PricesOf(RowsInMonth(df.rows, months[k])))

\* The calendar month whose month number is m, if the frame has exactly one.
MonthOfNumber(df, m) ==
    LET with == {p \in MonthsOf(df.rows) : 1 + (p % 12) = m}
    IN  IF Cardinality(with) = 1 THEN CHOOSE p \in with : TRUE ELSE -1

\* C12: the monthly revenue series has exactly one entry per distinct
\* calendar month (year and month) with a fact row, in chronological order,
\* each entry the sum of price of that month's rows, also across two
\* calendar years: for the year_month grouping of create_revenue_trend_chart
\* (the one calculate_kpis uses) and for the month grouping of
\* calculate_monthly_trends.
C12_MonthlySeriesPerCalendarMonth ==
    \A r \in returned :
        /\ r[1] = "create_revenue_trend_chart" =>
              IsMonthlySeriesOf(r[3].current, r[2],
                                LAMBDA e : to_period_M(e.date),
                                LAMBDA e : e.price)
        /\ r[1] = "calculate_monthly_trends" =>
              IsMonthlySeriesOf(r[3], r[2],
                                LAMBDA e : MonthOfNumber(r[2], e.month),
                                LAMBDA e : e.revenue.n)

\* The part of C12 about the year_month grouping alone.
C12_YearMonthGrouping ==
    \A r \in returned :
        r[1] = "create_revenue_trend_chart" =>
            IsMonthlySeriesOf(r[3].current, r[2],
                              LAMBDA e : to_period_M(e.date),
                              LAMBDA e : e.price)

\* C13 as stated: monthly_growth compares the two most recent months of the
\* current-window monthly revenue series, (latest - prior) / prior * 100
\* whatever the sign of prior, and is 0 when the series has fewer than two
\* months.
C13_MonthlyGrowthAsStated ==
    \A k \in kpis :
        IF HasTwoMonths
        THEN MonthP[1] # 0 => IsPctChange(k.monthly_growth, MonthX, MonthP)
        ELSE k.monthly_growth = Zero

\* C13 as amended: monthly_growth compares the two most recent months of the
\* current-window monthly revenue series: (latest - prior) / prior * 100
\* when the prior month's revenue is positive, and 0 when it is not or when
\* the series has fewer than two months.
C13_MonthlyGrowthGuarded ==
    \A k \in kpis :
        IF HasTwoMonths /\ MonthP[1] > 0
        THEN IsPctChange(k.monthly_growth, MonthX, MonthP)
        ELSE k.monthly_growth = Zero

\* Three months in the series, the middle one with a revenue other than the
\* first one's, and a growth that is not 0.
C13_Witness ==
    /\ Cardinality(MonthsOf(current_data.rows)) = 3
    /\ MonthP[1] > 0
    /\ current_data.rows[1].price # current_data.rows[2].price
    /\ \E k \in kpis : k.monthly_growth # Zero

\* The rows with delivery days purchased in the latest month present, and
\* in the month immediately before it.
LatestMonthDelivered ==
    RowsInMonth(DeliveredRows(current_data.rows),
                LatestMonth(DeliveredRows(current_data.rows)))

MonthBeforeDelivered ==
    RowsInMonth(DeliveredRows(current_data.rows),
                LatestMonth(DeliveredRows(current_data.rows)) - 1)

\* fraction x < fraction y
FracLess(x, y) == x[1] * y[2] < y[1] * x[2]

\* C18: the delivery trend compares the mean delivery_days of the rows
\* purchased in the latest month present with that of the rows purchased in
\* the month immediately before it; when both months have rows and the prior
\* mean is positive, the trend is positive exactly when the latest month's
\* mean is lower, negative exactly when it is higher, and 0 when they are
\* equal.
C18_DeliveryTrendOrientation ==
    \A c \in cards :
        (HasDelivery /\ MonthBeforeDelivered # <<>>) =>
            LET latest == DeliveryMean(LatestMonthDelivered)
                prior  == DeliveryMean(MonthBeforeDelivered)
                trend  == c.delivery.delivery_trend
            IN  /\ RatEq(c.delivery.current_delivery, latest[1], latest[2])
                /\ RatEq(c.delivery.prev_delivery, prior[1], prior[2])
                /\ prior[1] > 0 =>
                      /\ trend.kind = "num"
                      /\ trend.n > 0 <=> FracLess(latest, prior)
                      /\ trend.n < 0 <=> FracLess(prior, latest)
                      /\ trend.n = 0 <=> latest[1] * prior[2] = prior[1] * latest[2]

\* Both months have rows, the prior mean is positive and delivery got
\* faster.
C18_Witness ==
    /\ HasDelivery
    /\ MonthBeforeDelivered # <<>>
    /\ DeliveryMean(MonthBeforeDelivered)[1] > 0
    /\ \E c \in cards : c.delivery.delivery_trend.n > 0

\* The review scores present in the current frame.
ReviewScores ==
    LET reviewed == SelectSeq(current_data.rows, LAMBDA r : notna(r.review_score))
    IN  [i \in 1..Len(reviewed) |-> Val(reviewed[i].review_score)]

\* floor(total / count + 1/2)
RoundHalfUp(total, count) == (2 * total + count) \div (2 * count)

\* C19: the star rating is the mean review_score rounded half-up to an
\* integer: for scores in 1..5 the number of filled stars is
\* floor(mean + 1/2) (means of 1.5, 2.5, 3.5, 4.5 give 2, 3, 4, 5 stars), lies
\* in 1..5, and filled plus empty stars total 5.
C19_StarsRoundHalfUp ==
    \A c \in cards :
        c.review.available =>
            /\ c.review.filled = RoundHalfUp(SumSeq(ReviewScores), Len(ReviewScores))
            /\ c.review.filled \in 1..5
            /\ c.review.filled + c.review.empty = 5

\* The names present in an optional field of a frame.
NamesIn(df, field) == UNION {df.rows[i][field] : i \in 1..Len(df.rows)}

\* The sum of price of the rows of a frame whose field is the name.
RevenueOf(df, field, name) == SumSeq(PricesOf(RowsWhere(df, field, name)))

\* top is the breakdown of the frame by category: every entry a category
\* present on a row with the sum of price of its rows, no category twice,
\* revenue descending, all the categories when there are at most 10 of them
\* and otherwise 10 of them, none left out with more revenue than one kept.
IsTopCategories(top, df) ==
    LET present == NamesIn(df, "product_category_name")
        kept    == {top[k].key : k \in 1..Len(top)}
        Rev(c)  == RevenueOf(df, "product_category_name", c)
    IN  /\ kept \subseteq present
        /\ Cardinality(kept) = Len(top)
        /\ \A k \in 1..Len(top) : top[k].price = Rev(top[k].key)
        /\ \A k \in 1..(Len(top) - 1) : top[k].price >= top[k + 1].price
        /\ Len(top) = (IF Cardinality(present) <= 10
                        THEN Cardinality(present) ELSE 10)
        /\ \A c \in present \ kept : \A k \in kept : Rev(c) <= Rev(k)

\* C14: the category breakdown leaves out the rows with no
\* product_category_name, sums price per category, is ordered by revenue
\* descending, and returns at most 10 categories, none left out having more
\* revenue than one returned (all of them when there are 10 or fewer).
C14_TopCategories ==
    \A r \in returned :
        /\ r[1] = "create_category_chart" => IsTopCategories(r[3], r[2])
        /\ r[1] = "analyze_product_performance" =>
              IsTopCategories(r[3].top_categories_by_revenue, r[2])

\* More than 10 categories and a row with no category: a category is left
\* out of the chart.
C14_Witness ==
    \E r \in returned :
        /\ r[1] = "create_category_chart"
        /\ Cardinality(NamesIn(r[2], "product_category_name")) > 10
        /\ \E i \in 1..Len(r[2].rows) : r[2].rows[i].product_category_name = NaN
        /\ Len(r[3]) = 10

\* every state of the frame is on exactly one entry, with the sum of price
\* of its rows, and no entry is of another state
IsFullStateBreakdown(entries, df, Revenue(_)) ==
    LET present == NamesIn(df, "customer_state")
    IN  /\ \A st \in present :
              /\ Cardinality({k \in 1..Len(entries) : entries[k].key = st}) = 1
              /\ \A k \in 1..Len(entries) :
                    entries[k].key = st =>
                        Revenue(entries[k]) = RevenueOf(df, "customer_state", st)
        /\ \A k \in 1..Len(entries) : entries[k].key \in present

\* C15: the geographic breakdown is not truncated: every customer_state on
\* at least one fact row appears exactly once in the grouping of
\* create_state_map and in the geographic_summary of
\* analyze_geographic_performance, with the sum of price of its rows.
C15_AllStatesReturned ==
    \A r \in returned :
        /\ r[1] = "create_state_map" =>
              IsFullStateBreakdown(r[3], r[2], LAMBDA e : e.price)
        /\ r[1] = "analyze_geographic_performance" =>
              IsFullStateBreakdown(r[3].geographic_summary, r[2],
                                   LAMBDA e : e.revenue)

\* A state map of more than 10 states.
C15_Witness ==
    \E r \in returned :
        /\ r[1] = "create_state_map"
        /\ Cardinality(NamesIn(r[2], "customer_state")) > 10
        /\ Len(r[3]) > 10

\* The bucket of a number of delivery days >= 1, with inclusive upper
\* edges 3, 7 and 14.
FourBuckets == <<"1-3 days", "4-7 days", "8-14 days", "15+ days">>

BucketOf(days) ==
    IF days <= 3 THEN FourBuckets[1]
    ELSE IF days <= 7 THEN FourBuckets[2]
    ELSE IF days <= 14 THEN FourBuckets[3]
    ELSE FourBuckets[4]

\* The rows of a frame with a review score and with delivery days >= 1 that
\* fall in the bucket.
RowsOfBucket(df, bucket) ==
    SelectSeq(df.rows, LAMBDA r : /\ notna(r.review_score)
                                  /\ notna(r.delivery_days)
                                  /\ Val(r.delivery_days) >= 1
                                  /\ BucketOf(Val(r.delivery_days)) = bucket)

\* The mean review score of the rows.
ScoreMean(rows) ==
    Frac(SumSeq([i \in 1..Len(rows) |-> Val(rows[i].review_score)]), Len(rows))

\* Every bucket that has rows has one entry, under its label, whose mean is
\* that of the rows in the bucket.
IsBucketedBy(entries, df, Label(_)) ==
    \A b \in 1..Len(FourBuckets) :
        LET rows == RowsOfBucket(df, FourBuckets[b])
        IN  rows # <<>> =>
                \E k \in 1..Len(entries) :
                    /\ Label(entries[k]) = FourBuckets[b]
                    /\ RatEq(entries[k].review_score,
                             ScoreMean(rows)[1], ScoreMean(rows)[2])

\* C16: delivery days fall in four buckets with inclusive upper edges: 3 in
\* '1-3', 4 and 7 in '4-7', 8 and 14 in '8-14', 15 or more in '15+'; in
\* every place the code buckets delivery days:
\* create_satisfaction_delivery_chart, categorize_delivery_speed and
\* analyze_customer_experience.
C16_FourDeliveryBuckets ==
    \A r \in returned :
        /\ (r[1] = "create_satisfaction_delivery_chart" /\ r[3].traces # <<>>)
              => IsBucketedBy(r[3].traces[1], r[2],
                              LAMBDA e : e.delivery_bucket)
        /\ (r[1] = "categorize_delivery_speed" /\ r[2].days >= 1)
              => r[3] = BucketOf(r[2].days)
        /\ (r[1] = "analyze_customer_experience" /\ r[3].error = "")
              => IsBucketedBy(r[3].satisfaction_by_delivery_speed, r[2],
                              LAMBDA e : e.delivery_category)

\* The part of C16 about the chart alone.
C16_ChartBuckets ==
    \A r \in returned :
        (r[1] = "create_satisfaction_delivery_chart" /\ r[3].traces # <<>>)
            => IsBucketedBy(r[3].traces[1], r[2], LAMBDA e : e.delivery_bucket)

\* A frame has a row with both delivery_days and review_score.
HasQualifyingRow(df) ==
    /\ "review_score" \in df.columns
    /\ "delivery_days" \in df.columns
    /\ \E i \in 1..Len(df.rows) :
          notna(df.rows[i].review_score) /\ notna(df.rows[i].delivery_days)

\* C17: when no fact row has both delivery_days and review_score (every row
\* lacks one, the fact set is empty, or a column is absent) the
\* delivery/satisfaction result is the no-data marker and never a bucketed
\* aggregate; when at least one row has both, it is a bucketed aggregate and
\* not the marker.
C17_NoDataMarker ==
    \A r \in returned :
        r[1] = "create_satisfaction_delivery_chart" =>
            IF HasQualifyingRow(r[2])
            THEN r[3].annotation = NaN /\ Len(r[3].traces) = 1
            ELSE r[3].annotation # NaN /\ r[3].traces = <<>>

\* Both columns are there, there are rows, none has both values, and the
\* chart is the marker.
C17_Witness ==
    \E r \in returned :
        /\ r[1] = "create_satisfaction_delivery_chart"
        /\ {"review_score", "delivery_days"} \subseteq r[2].columns
        /\ r[2].rows # <<>>
        /\ ~HasQualifyingRow(r[2])
        /\ r[3].annotation # NaN

\* C20: constructing the loader validates the required files before any is
\* parsed: a missing data path fails with the path error; otherwise one or
\* more absent files fail with a single error naming exactly the absent
\* files, of a kind distinct from the path error; in both cases no table is
\* loaded.
C20_ConstructionValidatesFiles ==
    LET absent == Range(required_files) \ fs.files
        path_error == Val(validate_data_path([exists |-> FALSE, files |-> {}]))
        NoTableLoaded == \A t \in {orders, order_items, products, customers,
                                   reviews} : ~IsBuilt(t)
    IN  /\ instance = "constructed" => (fs.exists /\ absent = {})
        /\ instance = "failed" =>
              /\ NoTableLoaded
              /\ \E e \in init_error :
                    IF ~fs.exists
                    THEN e = path_error
                    ELSE /\ absent # {}
                         /\ Range(e.files) = absent
                         /\ Len(e.files) = Cardinality(absent)
                         /\ e.kind # path_error.kind

\* The same with no requirement on the kind of the missing-files error.
C20_AllElseHolds ==
    LET absent == Range(required_files) \ fs.files
        path_error == Val(validate_data_path([exists |-> FALSE, files |-> {}]))
    IN  /\ instance = "constructed" => (fs.exists /\ absent = {})
        /\ instance = "failed" =>
              /\ \A t \in {orders, order_items, products, customers, reviews} :
                    ~IsBuilt(t)
              /\ \E e \in init_error :
                    IF ~fs.exists
                    THEN e = path_error
                    ELSE /\ absent # {}
                         /\ Range(e.files) = absent
                         /\ Len(e.files) = Cardinality(absent)

\* C21: the metrics pass has no side effect on its inputs: across a call of
\* calculate_kpis, create_bottom_cards or calculate_revenue_metrics the
\* current and the previous fact table keep their columns and their rows.
C21_InputsNotMutated ==
    [][(IsBuilt(current_data) /\ IsBuilt(previous_data))
          => (current_data' = current_data /\ previous_data' = previous_data)]_vars

\* The order_ids of the rows of a frame.
OrderIdsOf(df) == {df.rows[i].order_id : i \in 1..Len(df.rows)}

\* C22: an unparseable purchase timestamp is absent in the loaded orders
\* table (the load does not fail), and an order whose purchase timestamp is
\* absent is selected by no window: main renders, and neither fact table and
\* neither table of filtered orders has a row of that order.
C22_AbsentTimestampSelectedByNoWindow ==
    IsBuilt(orders) =>
        \A i \in 1..Len(csv.orders) :
            /\ Len(orders.rows) = Len(csv.orders)
            /\ csv.orders[i].order_purchase_timestamp.text # "ok"
                  => orders.rows[i].order_purchase_timestamp = NaN
            /\ (orders.rows[i].order_purchase_timestamp = NaN /\ outcome # "idle")
                  => /\ outcome \in {"rendered", "error"}
                     /\ \A df \in {current_data, previous_data, current_orders,
                                    previous_orders} :
                            orders.rows[i].order_id \notin OrderIdsOf(df)

\* A rendered run over files in which a delivered order with items has an
\* unparseable purchase timestamp, while the other order is in the window.
C22_Witness ==
    /\ outcome = "rendered"
    /\ current_data.rows # <<>>
    /\ \E i \in 1..Len(csv.orders) :
          /\ csv.orders[i].order_purchase_timestamp.text = "garbage"
          /\ IsDelivered(orders.rows[i])
          /\ \E k \in 1..Len(order_items.rows) :
                order_items.rows[k].order_id = orders.rows[i].order_id

\* The frame without the rows that lack delivery_days or review_score.
QualifyingOnly(df) ==
    Frame(df.columns,
          SelectSeq(df.rows, LAMBDA r : notna(r.review_score) /\ notna(r.delivery_days)))

\* C23: a row with absent delivery_days or absent review_score contributes to
\* no bucket's average review score: the chart is the chart of the rows that
\* have both, and every average of satisfaction_by_delivery_speed is the
\* average of the same bucket computed from the rows that have both.
C23_OnlyRowsWithBoth ==
    \A r \in returned :
        /\ r[1] = "create_satisfaction_delivery_chart"
              => \E observed \in BOOLEAN :
                    r[3] = create_satisfaction_delivery_chart(QualifyingOnly(r[2]),
                                                              observed)
        /\ (r[1] = "analyze_customer_experience" /\ r[3].error = "")
              => LET all  == r[3].satisfaction_by_delivery_speed
                     both == analyze_customer_experience(QualifyingOnly(r[2]))
                                 .satisfaction_by_delivery_speed
                 IN  \A k \in 1..Len(all) :
                        \/ all[k].review_score.kind = "nan"
                        \/ \E j \in 1..Len(both) : both[j] = all[k]

\* The part of C23 about the chart alone.
C23_ChartOnlyRowsWithBoth ==
    \A r \in returned :
        r[1] = "create_satisfaction_delivery_chart"
            => \E observed \in BOOLEAN :
                  r[3] = create_satisfaction_delivery_chart(QualifyingOnly(r[2]),
                                                            observed)

C25_EveryQualifyingRowInABucket ==
    \A r \in returned :
        (r[1] = "create_satisfaction_delivery_chart" /\ r[3].traces # <<>>) =>
            LET qualifying == QualifyingOnly(r[2]).rows
                bars       == r[3].traces[1]
                InBucket(b) ==
                    SelectSeq(qualifying,
                              LAMBDA q : cut(Val(q.delivery_days)) = Some(BucketLabels[b]))
            IN  /\ SumSeq([b \in 1..Len(BucketLabels) |-> Len(InBucket(b))])
                      = Len(qualifying)
                /\ \A i \in 1..Len(qualifying) :
                      \E k \in 1..Len(bars) :
                          /\ cut(Val(qualifying[i].delivery_days))
                                = Some(bars[k].delivery_bucket)
                          /\ bars[k].review_score.kind = "num"

\* The same for the rows delivered a day or more after the purchase.
C25_LaterDeliveriesInABucket ==
    \A r \in returned :
        (r[1] = "create_satisfaction_delivery_chart" /\ r[3].traces # <<>>) =>
            LET qualifying == QualifyingOnly(r[2]).rows
                bars       == r[3].traces[1]
            IN  \A i \in 1..Len(qualifying) :
                    Val(qualifying[i].delivery_days) >= 1 =>
                        \E k \in 1..Len(bars) :
                            /\ cut(Val(qualifying[i].delivery_days))
                                  = Some(bars[k].delivery_bucket)
                            /\ bars[k].review_score.kind = "num"

Tables == {orders, order_items, products, customers, reviews}

AllUnset == \A t \in Tables : ~IsBuilt(t)

AllSet == \A t \in Tables : IsBuilt(t)

\* A step of prepare_sales_data or of a get_sales_with_* method, told by what
\* it sets: the sales data, the exception, or the frame returned.
IsSalesCall ==
    sales_data' # sales_data \/ raised' # raised \/ returned' # returned

\* C27: on a constructed loader, prepare_sales_data and the get_sales_with_*
\* methods called before load_all_datasets fail with the 'Datasets must be
\* loaded first' ValueError and leave the five tables unset; once
\* load_all_datasets has returned the five tables are set, stay set across
\* these calls, and the calls never raise that error.
C27_LoadBeforeUse ==
    [][/\ (AllUnset /\ IsSalesCall)
             => /\ raised' = "ValueError: Datasets must be loaded first"
                /\ AllUnset'
                /\ sales_data' = sales_data
                /\ \A r \in returned' : ~IsBuilt(r[3])
       /\ AllSet => AllSet'
       /\ (AllSet /\ IsSalesCall)
             => raised' # "ValueError: Datasets must be loaded first"
       /\ AllUnset' \/ AllSet']_vars

\* A get_sales_with_* call failed before the load, the tables were then
\* loaded, and prepare_sales_data has since returned rows without an error.
C27_Witness ==
    /\ AllSet
    /\ raised = ""
    /\ sales_data.rows # <<>>
    /\ \E r \in returned : ~IsBuilt(r[3])

====
